---- MODULE Spec2Model ----
(***************************************************************************)
(* Model of the tool-call deduplicating live proxy of DailyPilot           *)
(* (src/server/index.ts, the wss.on('connection') handler), of the         *)
(* loop-guarding proxy (src/unnamed/part_001) and of the client's          *)
(* LiveManager (src/unnamed/part_006).                                     *)
(*                                                                         *)
(* Strings are sequences of one-character tokens, JSON values are records  *)
(* [t, s, kv], and a Map is a function whose DOMAIN is the set of keys.    *)
(***************************************************************************)
EXTENDS Integers, Sequences, FiniteSets, TLC

VARIABLES
  pendingToolCalls,         \* Map dedupKey -> the entry object (by its originalId)
  entries,                  \* the entry objects, by originalId
  recentActions,            \* Map actionKey -> timestamp
  toolIdCounter,
  lastFinalInputTranscript,
  currentInputTranscript,
  lastActivityState,
  handlers,                 \* toolResponse handlers suspended at an await
  upstreamSent,             \* per upstream id: the responses passed to sendToolResponse
  forwarded,                \* internal ids of the calls sent to the client
  callLog,                  \* per upstream id: how the batch loop classified the call
  nextGeminiId,             \* the number of ids the upstream has used
  currentTranscription,
  lastCompletedTranscription,
  skipCurrentAudio,
  sinceTurnComplete,        \* now - lastTurnCompleteTime
  audioCooldownLeft,        \* audioCooldownUntil - now, 0 once it has passed
  clientWs,                 \* clientWs.readyState
  geminiSession,            \* "connecting", "open", "closing", "closed" or "failed"
  handlersInstalled,        \* clientWs.on('message') and clientWs.on('close') are set
  connectAttempts,          \* calls of live.connect
  upstreamErrors,           \* calls of callbacks.onerror
  clientLog,                \* the connected, closed and error frames the client got
  activityNotes,            \* the last two activity frames the client got
  usedAfterEnd,             \* a session method was called after onclose or onerror
  audioIn,                  \* the payloads of the audio frames the client sent
  audioOut,                 \* the payloads passed to sendRealtimeInput
  lgSessions,               \* LoopGuard: the state of each session created, in order
  lgGeminiSession,          \* LoopGuard: the session geminiSession refers to, 0 for null
  isReconnecting,
  toolCallCounts,           \* Map key -> count
  lgClientWs,               \* LoopGuard: clientWs.readyState
  lgHandlersInstalled,      \* LoopGuard: the client handlers are set
  lgClientLog,              \* LoopGuard: the frames the client got, but for message frames
  lgAnnounced,              \* LoopGuard: per session, the frame its onopen sent
  lgClosedBy,               \* LoopGuard: the session whose onclose closed the client socket
  lgReset,                  \* LoopGuard: the sessions that a reset has closed
  lgAudioTo,                \* LoopGuard: the session handed the last audio frame
  lgErrors,                 \* LoopGuard: calls of callbacks.onerror
  ws,                       \* LiveManager: readyState of this.ws, CLOSED when null
  manuallyDisconnecting,
  running,                  \* LiveManager: the runs of handleGeminiMessage at an await
  wsSent,                   \* LiveManager: the toolResponse frames sent
  runsEnded,                \* LiveManager: the runs that ended, with how each tool ended
  batchesReceived,          \* LiveManager: tool-call messages received
  hName, hArgs1, hArgs2, hVariation, hOut1, hOut2, hKind, hPhase  \* fingerprint runs

mainVars == <<pendingToolCalls, entries, recentActions, toolIdCounter,
              lastFinalInputTranscript, currentInputTranscript, lastActivityState,
              handlers, upstreamSent, forwarded, callLog, nextGeminiId>>
audioVars == <<currentTranscription, lastCompletedTranscription, skipCurrentAudio,
               sinceTurnComplete, audioCooldownLeft>>
sessionVars == <<clientWs, geminiSession, handlersInstalled, connectAttempts,
                 upstreamErrors, clientLog, activityNotes, usedAfterEnd>>
relayVars == <<audioIn, audioOut>>
hashVars == <<hName, hArgs1, hArgs2, hVariation, hOut1, hOut2, hKind, hPhase>>
(* the variables that the handlers of src/server/index.ts do not touch *)
guardVars == <<lgSessions, lgGeminiSession, isReconnecting, toolCallCounts, lgClientWs,
               lgHandlersInstalled, lgClientLog, lgAnnounced, lgClosedBy, lgReset, lgAudioTo,
               lgErrors>>
managerVars == <<ws, manuallyDisconnecting, running, wsSent, runsEnded, batchesReceived>>
otherVars == <<hashVars, guardVars, managerVars>>
notGuardVars == <<mainVars, audioVars, sessionVars, relayVars, hashVars, managerVars>>
notManagerVars == <<mainVars, audioVars, sessionVars, relayVars, hashVars, guardVars>>
vars == <<mainVars, audioVars, sessionVars, relayVars, otherVars>>

-----------------------------------------------------------------------------
(* Program constants *)

DEDUP_WINDOW_MS == 10000
MAX_PENDING_TOOL_MS == 30000
ACTION_DEDUP_WINDOW_MS == 15000
AUDIO_COOLDOWN_MS == 1500
TRANSCRIPTION_SIMILARITY_TENTHS == 7      \* TRANSCRIPTION_SIMILARITY_THRESHOLD = 0.7

(* Bounds of the model *)

MaxCalls == 3          \* tool calls carrying an id that the upstream issues
MaxHandlers == 1       \* toolResponse handlers suspended at the same time
MaxTranscript == 1     \* length of the accumulated input transcript
MaxChunks == 1         \* output-transcription chunks of one turn
MaxUpstreamErrors == 1 \* error events of the upstream session
MaxAudio == 2          \* audio frames that the client sends

(* Time.  Date.now() enters the code only through differences              *)
(* now - timestamp.  Each timestamp field of the model holds that          *)
(* difference, the time elapsed since the field was set; Tick advances all *)
(* of them by TickMs, and an elapsed time stops growing at Saturated,      *)
(* which is beyond every window the code compares it with.                 *)

TickMs == ACTION_DEDUP_WINDOW_MS \div 2
Saturated == MAX_PENDING_TOOL_MS + 2 * TickMs

(* the audio checks compare with AUDIO_COOLDOWN_MS and with 2000 ms *)
ShortTickMs == AUDIO_COOLDOWN_MS \div 2
AudioSaturated == 3 * ShortTickMs

-----------------------------------------------------------------------------
(* Strings *)

UpperChars == <<"F", "O", "M">>
LowerChars == <<"f", "o", "m">>

ToLowerChar(c) ==
  IF \E i \in 1..Len(UpperChars) : UpperChars[i] = c
  THEN LowerChars[CHOOSE i \in 1..Len(UpperChars) : UpperChars[i] = c]
  ELSE c

ToUpperChar(c) ==
  IF \E i \in 1..Len(LowerChars) : LowerChars[i] = c
  THEN UpperChars[CHOOSE i \in 1..Len(LowerChars) : LowerChars[i] = c]
  ELSE c

toLowerCase(s) == [i \in 1..Len(s) |-> ToLowerChar(s[i])]

IsSpace(c) == c = " "

RECURSIVE trimStart(_)
trimStart(s) ==
  IF s # <<>> /\ IsSpace(Head(s)) THEN trimStart(Tail(s)) ELSE s

RECURSIVE trimEnd(_)
trimEnd(s) ==
  IF s # <<>> /\ IsSpace(s[Len(s)]) THEN trimEnd(SubSeq(s, 1, Len(s) - 1)) ELSE s

trim(s) == trimEnd(trimStart(s))

substring(s, from, to) ==
  SubSeq(s, from + 1, IF to < Len(s) THEN to ELSE Len(s))

(* s.split(/\s+/): cur is the piece being read, acc the pieces read *)
RECURSIVE SplitSpaces(_, _, _)
SplitSpaces(s, cur, acc) ==
  IF s = <<>> THEN Append(acc, cur)
  ELSE IF IsSpace(Head(s))
  THEN IF Len(s) > 1 /\ IsSpace(s[2]) THEN SplitSpaces(Tail(s), cur, acc)
       ELSE SplitSpaces(Tail(s), <<>>, Append(acc, cur))
  ELSE SplitSpaces(Tail(s), Append(cur, Head(s)), acc)

(* text.toLowerCase().split(/\s+/).filter(w => w.length > 2), as a Set *)
LongWords(text) ==
  LET pieces == SplitSpaces(toLowerCase(text), <<>>, <<>>)
  IN {pieces[i] : i \in {j \in 1..Len(pieces) : Len(pieces[j]) > 2}}

isSimilarTranscription(text1, text2) ==
  LET set1 == LongWords(text1)
      set2 == LongWords(text2)
  IN IF set1 = {} \/ set2 = {} THEN FALSE
     ELSE 10 * Cardinality(set1 \cap set2)
            > TRANSCRIPTION_SIMILARITY_TENTHS * Cardinality(set1 \cup set2)

-----------------------------------------------------------------------------
(* JSON values: t is the type tag, s the characters of a string or number, *)
(* kv the <<key, value>> pairs of an object in insertion order (for an     *)
(* array: the items, keyed by position).                                   *)

Undefined == [t |-> "undef", s |-> <<>>, kv |-> <<>>]
Str(s) == [t |-> "str", s |-> s, kv |-> <<>>]
Num(s) == [t |-> "num", s |-> s, kv |-> <<>>]
Obj(kv) == [t |-> "obj", s |-> <<>>, kv |-> kv]
Arr(items) == [t |-> "arr", s |-> <<>>, kv |-> [i \in 1..Len(items) |-> <<"#", items[i]>>]]

(* Property names, ranked as Array.prototype.sort orders them (UTF-16 code *)
(* units: upper-case letters come before lower-case ones).                 *)
KeyRank(k) ==
  CASE k = "Title" -> 1
    [] k = "items" -> 2
    [] k = "priority" -> 3
    [] k = "text" -> 4
    [] k = "thought" -> 5
    [] k = "title" -> 6
    [] k = "type" -> 7
    [] OTHER -> 8

Keys(o) == [i \in 1..Len(o.kv) |-> o.kv[i][1]]

HasKey(o, k) == o.t = "obj" /\ \E i \in 1..Len(o.kv) : o.kv[i][1] = k

Get(o, k) ==
  IF HasKey(o, k)
  THEN o.kv[CHOOSE i \in 1..Len(o.kv) : o.kv[i][1] = k][2]
  ELSE Undefined

RECURSIVE SortKeys(_)
SortKeys(ks) ==
  IF ks = <<>> THEN <<>>
  ELSE LET m == CHOOSE i \in 1..Len(ks) :
                  \A j \in 1..Len(ks) : KeyRank(ks[i]) <= KeyRank(ks[j])
       IN <<ks[m]>> \o SortKeys(SubSeq(ks, 1, m - 1) \o SubSeq(ks, m + 1, Len(ks)))

RECURSIVE Stringify(_)
RECURSIVE StringifyMembers(_, _)
StringifyMembers(kv, isArray) ==
  IF kv = <<>> THEN <<>>
  ELSE (IF isArray THEN <<>> ELSE <<"\"", kv[1][1], "\"", ":">>)
       \o Stringify(kv[1][2])
       \o (IF Len(kv) > 1 THEN <<",">> ELSE <<>>)
       \o StringifyMembers(Tail(kv), isArray)

(* JSON.stringify *)
Stringify(v) ==
  CASE v.t = "str" -> <<"\"">> \o v.s \o <<"\"">>
    [] v.t = "num" -> v.s
    [] v.t = "obj" -> <<"{">> \o StringifyMembers(v.kv, FALSE) \o <<"}">>
    [] v.t = "arr" -> <<"[">> \o StringifyMembers(v.kv, TRUE) \o <<"]">>
    [] OTHER -> <<"null">>

(* String(x) *)
StringOf(v) ==
  CASE v.t = "undef" -> <<"undefined">>
    [] v.t \in {"str", "num"} -> v.s
    [] OTHER -> <<"[object Object]">>

(* mutant of NormalizeValue: the value is lower-cased but not trimmed *)
NormalizeValueNoTrim(val) ==
  IF val.t = "str" THEN Str(toLowerCase(val.s)) ELSE val

NormalizeValue(val) ==
  IF val.t = "str" THEN Str(trim(toLowerCase(val.s))) ELSE val

stableArgsHash(name, args) ==
  IF args.t \notin {"obj", "arr"}
  THEN <<name, ":">> \o StringOf(args)
  ELSE LET sortedKeys == SortKeys(Keys(args))
           normalized == [i \in 1..Len(sortedKeys) |->
                            <<sortedKeys[i], NormalizeValue(Get(args, sortedKeys[i]))>>]
       IN <<name, ":">> \o Stringify(Obj(normalized))

(* args?.f || '' *)
FieldOrEmpty(args, f) ==
  IF Get(args, f).t = "str" THEN Get(args, f).s ELSE <<>>

actionTools == {"add_task", "add_event", "draft_message", "delete_task",
                "delete_event", "save_suggestion", "report_alert"}

Null == <<"null">>

actionKey(name, args) ==
  IF name \notin actionTools THEN Null
  ELSE CASE name \in {"add_task", "add_event", "save_suggestion"} ->
              <<name, ":">> \o substring(toLowerCase(FieldOrEmpty(args, "title")), 0, 30)
         [] name = "draft_message" ->
              <<name, ":">> \o toLowerCase(FieldOrEmpty(args, "recipient"))
                \o <<":">> \o toLowerCase(FieldOrEmpty(args, "platform"))
         [] name = "delete_task" -> <<name, ":">> \o FieldOrEmpty(args, "taskId")
         [] name = "delete_event" -> <<name, ":">> \o FieldOrEmpty(args, "eventId")
         [] name = "report_alert" ->
              <<name, ":">> \o substring(toLowerCase(FieldOrEmpty(args, "message")), 0, 50)
         [] OTHER -> Null

-----------------------------------------------------------------------------
(* Tool calls, responses and client frames *)

NoId == 0                      \* fc.id === undefined
NoEntry == 0

InternalIdFixed(n) == 0 - 1

(* `server-${n}-${now}`: the internal ids are the negative numbers, apart  *)
(* from the ids of the upstream, which are the positive ones               *)
InternalId(n) == 0 - n
NoResult == "undefined"        \* entry.result === undefined

Result(v) == [t |-> "result", v |-> v]          \* { result: v }
Error(v) == [t |-> "error", v |-> v]            \* { error: v }

TimeoutResponse == Error("timed out")
ThoughtResponse == Result("success")
SemanticResponse == Result("Already processed similar request")
ClientResponses == {Result("t1"), Error("Failed to execute")}

ResultOfNone(response) == NoResult

(* r.response?.result *)
ResultOf(response) == IF response.t = "result" THEN response.v ELSE NoResult

Frame(type, state, text, calls) ==
  [type |-> type, state |-> state, text |-> text, calls |-> calls]

Range(f) == {f[i] : i \in DOMAIN f}

Restrict(f, S) == [x \in S |-> f[x]]

(* geminiSession.sendToolResponse({functionResponses: [{id, name, response}]}) *)
Send(sent, id, response) == [sent EXCEPT ![id] = Append(@, response)]

RECURSIVE SendAll(_, _, _)
SendAll(sent, ids, response) ==
  IF ids = {} THEN sent
  ELSE LET id == CHOOSE x \in ids : TRUE
       IN SendAll(Send(sent, id, response), ids \ {id}, response)

-----------------------------------------------------------------------------
(* onmessage: the pending sweep.  e.elapsed is now - entry.timestamp.      *)

Expired(e) == e.responded /\ e.elapsed > DEDUP_WINDOW_MS

TimedOutAtLimit(e) == ~e.responded /\ e.elapsed >= MAX_PENDING_TOOL_MS

TimedOut(e) == ~e.responded /\ e.elapsed > MAX_PENDING_TOOL_MS

SweepTimedOut(pend, ents) == {k \in DOMAIN pend : TimedOut(ents[pend[k]])}

SweepDeleted(pend, ents) ==
  {k \in DOMAIN pend : Expired(ents[pend[k]]) \/ TimedOut(ents[pend[k]])}

(* the upstream ids a timeout response is sent for *)
SweepTimeoutIds(pend, ents) ==
  UNION {(IF ents[pend[k]].geminiId # NoId THEN {ents[pend[k]].geminiId} ELSE {})
           \cup (Range(ents[pend[k]].duplicateGeminiIds) \ {NoId})
           : k \in SweepTimedOut(pend, ents)}

(* the entry objects still referenced by the map or by a suspended handler *)
Live(pend, ents, hs) ==
  Restrict(ents, {id \in DOMAIN ents :
                    \/ \E k \in DOMAIN pend : pend[k] = id
                    \/ \E i \in 1..Len(hs) : hs[i].entry = id})

-----------------------------------------------------------------------------
(* onmessage: the tool-call batch loop.  st carries the variables the loop *)
(* reads and writes.                                                       *)

emitActivityAlways(st, state) ==
  [st EXCEPT !.activity = state,
             !.client = Append(@, Frame("activity", state, <<>>, <<>>))]

emitActivity(st, state) ==
  IF state = st.activity THEN st
  ELSE [st EXCEPT !.activity = state,
                  !.client = Append(@, Frame("activity", state, <<>>, <<>>))]

Logged(st, fc, key, kind, entry) ==
  IF fc.id = NoId THEN st.log
  ELSE (fc.id :> [name |-> fc.name, key |-> key, kind |-> kind, entry |-> entry]) @@ st.log

HandleLogThought(fc, st) ==
  [st EXCEPT !.client = Append(@, Frame("thought", "", FieldOrEmpty(fc.args, "thought"), <<>>)),
             !.sent = IF fc.id = NoId THEN @ ELSE Send(@, fc.id, ThoughtResponse),
             !.log = Logged(st, fc, <<>>, "thought", NoEntry)]

HandleMissingIdAlways(fc, st) ==
  LET fallbackText == trim(IF st.lastFinal # <<>> THEN st.lastFinal ELSE st.curInput)
      withError == Append(st.client, Frame("error", "", <<>>, <<>>))
  IN [st EXCEPT !.client = Append(withError, Frame("fallback_text", "", fallbackText, <<>>)),
                !.lastFinal = <<>>,
                !.curInput = <<>>,
                !.aborted = TRUE]

HandleMissingId(fc, st) ==
  LET fallbackText == trim(IF st.lastFinal # <<>> THEN st.lastFinal ELSE st.curInput)
      withError == Append(st.client, Frame("error", "", <<>>, <<>>))
  IN IF fallbackText # <<>>
     THEN [st EXCEPT !.client = Append(withError, Frame("fallback_text", "", fallbackText, <<>>)),
                     !.lastFinal = <<>>,
                     !.curInput = <<>>,
                     !.aborted = TRUE]
     ELSE [st EXCEPT !.client = withError, !.aborted = TRUE]

HandleIdentified(fc, st0) ==
  LET st == [st0 EXCEPT !.counter = @ + 1]
      geminiId == fc.id
      internalId == InternalId(st.counter)
      dedupKey == stableArgsHash(fc.name, fc.args)
      aKey == actionKey(fc.name, fc.args)
  IN IF dedupKey \in DOMAIN st.pend
     THEN LET ref == st.pend[dedupKey]
              existingEntry == st.ents[ref]
              pushed == [st EXCEPT !.ents[ref].duplicateIds = Append(@, internalId),
                                   !.ents[ref].duplicateGeminiIds = Append(@, geminiId)]
          IN IF existingEntry.result # NoResult
             THEN [pushed EXCEPT !.sent = Send(@, geminiId, Result(existingEntry.result)),
                                 !.log = Logged(st, fc, dedupKey, "dupCached", ref)]
             ELSE [pushed EXCEPT !.log = Logged(st, fc, dedupKey,
                                   IF existingEntry.responded THEN "dupLate" ELSE "dupQueued",
                                   ref)]
     ELSE IF aKey # Null /\ aKey \in DOMAIN st.recent
     THEN [st EXCEPT !.sent = Send(@, geminiId, SemanticResponse),
                     !.log = Logged(st, fc, dedupKey, "semantic", NoEntry)]
     ELSE [st EXCEPT
             !.pend = (dedupKey :> internalId) @@ @,
             !.ents = (internalId :>
                         [originalId |-> internalId, geminiId |-> geminiId,
                          duplicateIds |-> <<>>, duplicateGeminiIds |-> <<>>,
                          name |-> fc.name, elapsed |-> 0,
                          result |-> NoResult, responded |-> FALSE]) @@ @,
             !.recent = IF aKey # Null THEN (aKey :> 0) @@ @ ELSE @,
             !.unique = Append(@, [fc EXCEPT !.id = internalId]),
             !.log = Logged(st, fc, dedupKey, "new", internalId)]

HandleCall(fc, st) ==
  IF fc.name = "log_thought" THEN HandleLogThought(fc, st)
  ELSE IF fc.id = NoId THEN HandleMissingId(fc, st)
  ELSE HandleIdentified(fc, st)

(* the calls the loop never looks at, after its return at the missing id *)
RECURSIVE Unreached(_, _)
Unreached(calls, st) ==
  IF calls = <<>> THEN st
  ELSE Unreached(Tail(calls),
                 [st EXCEPT !.log = Logged(st, Head(calls), <<>>, "unreached", NoEntry)])

RECURSIVE ProcessCalls(_, _)
ProcessCalls(calls, st) ==
  IF calls = <<>> THEN st
  ELSE IF st.aborted THEN Unreached(calls, st)
  ELSE ProcessCalls(Tail(calls), HandleCall(Head(calls), st))

CleanRecentActionsAtLimit(recent) ==
  Restrict(recent, {k \in DOMAIN recent : ~(recent[k] >= ACTION_DEDUP_WINDOW_MS)})

CleanRecentActions(recent) ==
  Restrict(recent, {k \in DOMAIN recent : ~(recent[k] > ACTION_DEDUP_WINDOW_MS)})

ForwardUniqueEach(st) ==
  IF ~st.aborted /\ Len(st.unique) > 0
  THEN [st EXCEPT !.client = @ \o [i \in 1..Len(st.unique) |->
                                     Frame("message", "", <<>>, <<st.unique[i]>>)],
                  !.fwd = @ \cup {st.unique[i].id : i \in 1..Len(st.unique)}]
  ELSE st

ForwardUnique(st) ==
  IF ~st.aborted /\ Len(st.unique) > 0
  THEN [st EXCEPT !.client = Append(@, Frame("message", "", <<>>, st.unique)),
                  !.fwd = @ \cup {st.unique[i].id : i \in 1..Len(st.unique)}]
  ELSE st

HandleToolCall(msg, st) ==
  LET thinking == emitActivity(st, "thinking")
      cleaned == [thinking EXCEPT !.recent = CleanRecentActions(@)]
  IN ForwardUnique(ProcessCalls(msg.calls, cleaned))

HandleInputTranscription(msg, st) ==
  LET listening == emitActivity(st, "listening")
      acc == listening.curInput \o msg.text
      cached == IF msg.finished
                THEN [listening EXCEPT !.lastFinal = trim(acc), !.curInput = <<>>]
                ELSE [listening EXCEPT !.curInput = acc]
      reset == [cached EXCEPT !.audio.currentTranscription = <<>>,
                              !.audio.lastCompletedTranscription = <<>>,
                              !.audio.skipCurrentAudio = FALSE,
                              !.audio.audioCooldownLeft = 0]
  IN [reset EXCEPT !.client = Append(@, Frame("message", "", msg.text, <<>>))]

HandleOther(msg, st) ==
  [st EXCEPT !.client = Append(@, Frame("message", "", <<>>, <<>>))]

(* the start of the running transcript resembles the start of the last one *)
DuplicateStart(audio) ==
  LET currentStart == substring(toLowerCase(audio.currentTranscription), 0, 30)
      lastStart == substring(toLowerCase(audio.lastCompletedTranscription), 0, 30)
  IN /\ audio.sinceTurnComplete < 2000
     /\ Len(audio.lastCompletedTranscription) > 20
     /\ Len(currentStart) > 10
     /\ isSimilarTranscription(currentStart, lastStart)

InCooldownNever(audio) == FALSE

(* now < audioCooldownUntil *)
InCooldown(audio) == audio.audioCooldownLeft > 0

SkipOnlyInCooldown(audio) == audio.skipCurrentAudio /\ audio.audioCooldownLeft > 0

(* if (skipCurrentAudio) return *)
SkipAudio(audio) == audio.skipCurrentAudio

(* a message with modelTurn parts that carry inlineData *)
HandleAudio(msg, st) ==
  LET speaking == emitActivity(st, "speaking")
      marked == IF DuplicateStart(speaking.audio)
                THEN [speaking EXCEPT !.audio.skipCurrentAudio = TRUE]
                ELSE speaking
  IN IF InCooldown(speaking.audio)
     THEN [speaking EXCEPT !.audio.skipCurrentAudio = TRUE]
     ELSE IF SkipAudio(marked.audio) THEN marked
     ELSE HandleOther(msg, marked)

HandleOutputTranscription(msg, st) ==
  HandleOther(msg, [st EXCEPT !.audio.currentTranscription = @ \o msg.text])

HandleTurnComplete(msg, st) ==
  LET idle == emitActivity(st, "idle")
      saved == IF Len(idle.audio.currentTranscription) > 20
               THEN [idle EXCEPT
                       !.audio.lastCompletedTranscription = idle.audio.currentTranscription,
                       !.audio.sinceTurnComplete = 0,
                       !.audio.audioCooldownLeft = AUDIO_COOLDOWN_MS]
               ELSE idle
      cleared == [saved EXCEPT !.audio.currentTranscription = <<>>]
      cached == IF Len(trim(cleared.curInput)) > 0 /\ cleared.lastFinal = <<>>
                THEN [cleared EXCEPT !.lastFinal = trim(cleared.curInput),
                                     !.curInput = <<>>]
                ELSE cleared
  IN IF idle.audio.skipCurrentAudio
     THEN [idle EXCEPT !.audio.skipCurrentAudio = FALSE,
                       !.audio.currentTranscription = <<>>]
     ELSE HandleOther(msg, cached)

LoopState(pend, ents, recent, counter, sent, lastFinal, curInput, activity, fwd, log, audio) ==
  [pend |-> pend, ents |-> ents, recent |-> recent, counter |-> counter, sent |-> sent,
   lastFinal |-> lastFinal, curInput |-> curInput, activity |-> activity,
   client |-> <<>>, unique |-> <<>>, fwd |-> fwd, log |-> log, aborted |-> FALSE,
   audio |-> audio]

(* the audio tracking variables of the connection *)
AudioState ==
  [currentTranscription |-> currentTranscription,
   lastCompletedTranscription |-> lastCompletedTranscription,
   skipCurrentAudio |-> skipCurrentAudio,
   sinceTurnComplete |-> sinceTurnComplete,
   audioCooldownLeft |-> audioCooldownLeft]

(* their values when the connection handler starts: lastTurnCompleteTime   *)
(* and audioCooldownUntil are 0, far in the past                           *)
FreshAudio ==
  [currentTranscription |-> <<>>,
   lastCompletedTranscription |-> <<>>,
   skipCurrentAudio |-> FALSE,
   sinceTurnComplete |-> AudioSaturated,
   audioCooldownLeft |-> 0]

(* the state after onmessage(msg) *)
OnMessageResult(msg) ==
  LET deleted == SweepDeleted(pendingToolCalls, entries)
      ids == 1..(nextGeminiId + msg.fresh)
      sent0 == [g \in ids |-> IF g \in DOMAIN upstreamSent THEN upstreamSent[g] ELSE <<>>]
      swept == LoopState(Restrict(pendingToolCalls, DOMAIN pendingToolCalls \ deleted),
                         entries, recentActions, toolIdCounter,
                         SendAll(sent0, SweepTimeoutIds(pendingToolCalls, entries),
                                 TimeoutResponse),
                         lastFinalInputTranscript, currentInputTranscript,
                         lastActivityState, forwarded, callLog, AudioState)
  IN CASE msg.kind = "toolCall" -> HandleToolCall(msg, swept)
       [] msg.kind = "audio" -> HandleAudio(msg, swept)
       [] msg.kind = "outputTranscription" -> HandleOutputTranscription(msg, swept)
       [] msg.kind = "inputTranscription" -> HandleInputTranscription(msg, swept)
       [] msg.kind = "turnComplete" -> HandleTurnComplete(msg, swept)
       [] OTHER -> HandleOther(msg, swept)

-----------------------------------------------------------------------------
(* clientWs.on('message'), toolResponse branch.  The handler runs until it *)
(* suspends at an awaited send inside the duplicate loop; st.suspended     *)
(* then holds its continuation: the responses not yet finished (rs, whose  *)
(* head is the one being processed), the entry it holds, the loop index i  *)
(* and geminiResponses (acc).                                              *)

RECURSIVE SendBatch(_, _)
SendBatch(sent, acc) ==
  IF acc = <<>> THEN sent
  ELSE SendBatch(Send(sent, Head(acc).id, Head(acc).response), Tail(acc))

CanonicalOther(entry, r) == [id |-> entry.geminiId, response |-> SemanticResponse]

Canonical(entry, r) == [id |-> entry.geminiId, response |-> r.response]

NeverResponded(entry) == FALSE

(* if (entry.responded) break *)
AlreadyResponded(entry) == entry.responded

RECURSIVE RunResponses(_, _, _)
RunResponses(rs, acc, st) ==
  IF rs = <<>> THEN [st EXCEPT !.sent = SendBatch(@, acc)]
  ELSE LET r == Head(rs)
           refs == {ref \in Range(st.pend) : st.ents[ref].originalId = r.id}
       IN IF refs = {} THEN RunResponses(Tail(rs), acc, st)
          ELSE LET ref == CHOOSE x \in refs : TRUE
                   entry == st.ents[ref]
                   marked == [st EXCEPT !.ents[ref].result = ResultOf(r.response),
                                        !.ents[ref].responded = TRUE]
               IN IF AlreadyResponded(entry) THEN RunResponses(Tail(rs), acc, st)
                  ELSE IF Len(entry.duplicateGeminiIds) > 0
                  THEN [marked EXCEPT
                          !.sent = Send(@, entry.duplicateGeminiIds[1], r.response),
                          !.suspended = <<[rs |-> rs, entry |-> ref, i |-> 0, acc |-> acc]>>]
                  ELSE RunResponses(Tail(rs), Append(acc, Canonical(entry, r)), marked)

ResumeResult(h, st) ==
  LET entry == st.ents[h.entry]
      r == Head(h.rs)
      i == h.i + 1
  IN IF i < Len(entry.duplicateGeminiIds)
     THEN [st EXCEPT !.sent = Send(@, entry.duplicateGeminiIds[i + 1], r.response),
                     !.suspended = <<[h EXCEPT !.i = i]>>]
     ELSE RunResponses(Tail(h.rs), Append(h.acc, Canonical(entry, r)),
                       [st EXCEPT !.ents[h.entry].duplicateIds = <<>>,
                                  !.ents[h.entry].duplicateGeminiIds = <<>>])

(* the handler and its continuations run with no other event in between *)
RECURSIVE RunToEnd(_)
RunToEnd(st) ==
  IF st.suspended = <<>> THEN st
  ELSE RunToEnd(ResumeResult(st.suspended[1], [st EXCEPT !.suspended = <<>>]))

HandleToolResponse(rs, st) == RunToEnd(RunResponses(rs, <<>>, st))

-----------------------------------------------------------------------------
(* Inputs *)

Foo == <<"F", "o", "o">>
foo == <<"f", "o", "o">>

ArgsTitle == Obj(<< <<"title", Str(foo)>> >>)
ArgsTitlePriority == Obj(<< <<"title", Str(foo)>>, <<"priority", Str(<<"M">>)>> >>)
ArgsThought == Obj(<< <<"thought", Str(<<"m">>)>> >>)

(* the calls the upstream issues: two add_task calls with one action key   *)
(* and different fingerprints, and a log_thought call                      *)
CallPool ==
  {[name |-> "add_task", args |-> ArgsTitle],
   [name |-> "add_task", args |-> ArgsTitlePriority],
   [name |-> "log_thought", args |-> ArgsThought]}

(* the calls it issues without an id *)
IdlessPool ==
  {[name |-> "add_task", args |-> ArgsTitle],
   [name |-> "log_thought", args |-> ArgsThought]}

BatchLengths == {1, 2}

(* a batch: the calls cs, the i-th carrying a fresh upstream id iff has[i] *)
Batch(cs, has, base) ==
  [i \in 1..Len(cs) |->
     [id |-> IF has[i] THEN base + Cardinality({j \in 1..i : has[j]}) ELSE NoId,
      name |-> cs[i].name,
      args |-> cs[i].args]]

Message(kind, calls, fresh, text, finished) ==
  [kind |-> kind, calls |-> calls, fresh |-> fresh, text |-> text, finished |-> finished]

ToolCallMessages(base) ==
  UNION {{Message("toolCall", Batch(cs, has, base),
                  Cardinality({j \in 1..n : has[j]}), <<>>, FALSE)
            : cs \in [1..n -> CallPool], has \in [1..n -> BOOLEAN]}
           : n \in BatchLengths}

WellFormed(msg) ==
  \A i \in 1..Len(msg.calls) :
     msg.calls[i].id = NoId =>
        [name |-> msg.calls[i].name, args |-> msg.calls[i].args] \in IdlessPool

TranscriptTexts == {<<"m">>, <<" ">>}

InputTranscriptionMessages ==
  {Message("inputTranscription", <<>>, 0, x, f) : x \in TranscriptTexts, f \in BOOLEAN}

OtherMessage == Message("other", <<>>, 0, <<>>, FALSE)

(* a sentence of three-letter words, each followed by a space *)
RECURSIVE Sentence(_)
Sentence(letters) ==
  IF letters = <<>> THEN <<>>
  ELSE <<Head(letters), Head(letters), Head(letters), " ">> \o Sentence(Tail(letters))

ChunkA == Sentence(<<"a", "b", "c", "d", "e", "f">>)
ChunkC == Sentence(<<"u", "v", "w", "x", "y", "z">>)
(* a transcript of 20 characters *)
ChunkB == Sentence(<<"h", "i", "j", "k", "l">>)

OutputChunks == {ChunkA, ChunkB, ChunkC}

AudioMessage == Message("audio", <<>>, 0, <<>>, FALSE)

OutputTranscriptionMessages ==
  {Message("outputTranscription", <<>>, 0, x, FALSE) : x \in OutputChunks}

TurnCompleteMessage == Message("turnComplete", <<>>, 0, <<>>, FALSE)

(* a batch of one log_thought call *)
ThoughtBatches ==
  {Message("toolCall", <<[id |-> NoId, name |-> "log_thought", args |-> ArgsThought]>>,
           0, <<>>, FALSE)}

(* the messages of a session in which no call is forwarded *)
SessionMessages ==
  ThoughtBatches \cup InputTranscriptionMessages \cup OutputTranscriptionMessages
    \cup {AudioMessage, TurnCompleteMessage}

UnknownId == 0

(* toolResponse frames: one response, or two responses of the same kind *)
ToolResponseMessages ==
  {<<[id |-> i, response |-> x]>> : i \in forwarded \cup {UnknownId}, x \in ClientResponses}
  \cup {<<[id |-> i, response |-> x], [id |-> j, response |-> x]>>
          : i \in forwarded, j \in forwarded, x \in ClientResponses}

-----------------------------------------------------------------------------
(* The state machine *)

InitMain ==
  /\ pendingToolCalls = <<>>
  /\ entries = <<>>
  /\ recentActions = <<>>
  /\ toolIdCounter = 0
  /\ lastFinalInputTranscript = <<>>
  /\ currentInputTranscript = <<>>
  /\ lastActivityState = "idle"
  /\ handlers = <<>>
  /\ upstreamSent = <<>>
  /\ forwarded = {}
  /\ callLog = <<>>
  /\ nextGeminiId = 0
  /\ currentTranscription = FreshAudio.currentTranscription
  /\ lastCompletedTranscription = FreshAudio.lastCompletedTranscription
  /\ skipCurrentAudio = FreshAudio.skipCurrentAudio
  /\ sinceTurnComplete = FreshAudio.sinceTurnComplete
  /\ audioCooldownLeft = FreshAudio.audioCooldownLeft
  /\ upstreamErrors = 0
  /\ activityNotes = <<>>
  /\ usedAfterEnd = FALSE
  /\ audioIn = <<>>
  /\ audioOut = <<>>

(* live.connect is under way *)
Connecting ==
  /\ clientWs = "OPEN"
  /\ geminiSession = "connecting"
  /\ handlersInstalled = FALSE
  /\ connectAttempts = 1
  /\ clientLog = <<>>

(* the session is open and the client handlers are installed *)
Connected ==
  /\ clientWs = "OPEN"
  /\ geminiSession = "open"
  /\ handlersInstalled = TRUE
  /\ connectAttempts = 1
  /\ clientLog = <<Frame("connected", "session", <<>>, <<>>)>>

(* callbacks.onclose or callbacks.onerror has run *)
SessionEnded == geminiSession = "closed" \/ upstreamErrors > 0

(* a send on a socket that is not OPEN delivers nothing *)
Delivered(frames) == IF clientWs = "OPEN" THEN frames ELSE <<>>

RECURSIVE Notes(_, _)
Notes(notes, frames) ==
  IF frames = <<>> THEN notes
  ELSE IF Head(frames).type # "activity" THEN Notes(notes, Tail(frames))
  ELSE Notes(IF notes = <<>> THEN <<Head(frames).state>>
             ELSE <<notes[Len(notes)], Head(frames).state>>, Tail(frames))

Lifecycle(frames) ==
  SelectSeq(frames, LAMBDA f : f.state = "session")

(* callbacks.onmessage *)
UpstreamMessage(msg) ==
  /\ geminiSession = "open"
  /\ nextGeminiId + msg.fresh <= MaxCalls
  /\ msg.kind = "inputTranscription"
       => Len(currentInputTranscript) + Len(msg.text) <= MaxTranscript
  /\ msg.kind = "outputTranscription"
       => Len(currentTranscription) + Len(msg.text) <= MaxChunks * Len(ChunkA)
  /\ LET st == OnMessageResult(msg)
     IN /\ pendingToolCalls' = st.pend
        /\ entries' = Live(st.pend, st.ents, handlers)
        /\ recentActions' = st.recent
        /\ toolIdCounter' = st.counter
        /\ lastFinalInputTranscript' = st.lastFinal
        /\ currentInputTranscript' = st.curInput
        /\ lastActivityState' = st.activity
        /\ upstreamSent' = st.sent
        /\ forwarded' = st.fwd
        /\ callLog' = st.log
        /\ currentTranscription' = st.audio.currentTranscription
        /\ lastCompletedTranscription' = st.audio.lastCompletedTranscription
        /\ skipCurrentAudio' = st.audio.skipCurrentAudio
        /\ sinceTurnComplete' = st.audio.sinceTurnComplete
        /\ audioCooldownLeft' = st.audio.audioCooldownLeft
        /\ clientLog' = clientLog \o Lifecycle(Delivered(st.client))
        /\ activityNotes' = Notes(activityNotes, Delivered(st.client))
        /\ usedAfterEnd' = (usedAfterEnd \/ (st.sent # upstreamSent /\ SessionEnded))
  /\ nextGeminiId' = nextGeminiId + msg.fresh
  /\ UNCHANGED <<handlers, otherVars, relayVars, clientWs, geminiSession, handlersInstalled,
                 connectAttempts, upstreamErrors>>

OnToolCall ==
  \E msg \in ToolCallMessages(nextGeminiId) : WellFormed(msg) /\ UpstreamMessage(msg)

OnInputTranscription ==
  \E msg \in InputTranscriptionMessages : msg.text # <<>> /\ UpstreamMessage(msg)

OnOther ==
  \E msg \in {OtherMessage} : msg.calls = <<>> /\ UpstreamMessage(msg)

(* geminiSession.sendToolResponse: a session that is not open, after its   *)
(* close() was called, passes nothing on                                   *)
Transmitted(sent) == IF geminiSession = "open" THEN sent ELSE upstreamSent

Finish(st, hs) ==
  /\ Len(hs \o st.suspended) <= MaxHandlers
  /\ handlers' = hs \o st.suspended
  /\ entries' = Live(st.pend, st.ents, handlers')
  /\ upstreamSent' = Transmitted(st.sent)
  /\ UNCHANGED <<pendingToolCalls, recentActions, toolIdCounter,
                 lastFinalInputTranscript, currentInputTranscript, lastActivityState,
                 forwarded, callLog, nextGeminiId, otherVars, relayVars, audioVars, clientWs,
                 geminiSession, handlersInstalled, connectAttempts, upstreamErrors,
                 clientLog, activityNotes>>
  /\ usedAfterEnd' = (usedAfterEnd \/ (st.sent # upstreamSent /\ SessionEnded))

HandlerState ==
  [pend |-> pendingToolCalls, ents |-> entries, sent |-> upstreamSent, suspended |-> <<>>]

(* clientWs.on('message') with a toolResponse frame, up to its first await *)
ClientToolResponse ==
  \E rs \in ToolResponseMessages :
     /\ handlersInstalled
     /\ clientWs = "OPEN"
     /\ Finish(RunResponses(rs, <<>>, HandlerState), handlers)

(* a suspended toolResponse handler continues after its awaited send *)
ResumeHandler ==
  \E i \in 1..Len(handlers) :
     Finish(ResumeResult(handlers[i], HandlerState),
            SubSeq(handlers, 1, i - 1) \o SubSeq(handlers, i + 1, Len(handlers)))

(* an awaited sendToolResponse inside the duplicate loop fails: nothing is *)
(* passed on, control leaves the loop for the catch block of the handler,  *)
(* which logs the error, and the handler is over.  before is the state     *)
(* ahead of the send and st the state had the send succeeded.              *)
CatchSendError(before, st) == [st EXCEPT !.sent = before.sent, !.suspended = <<>>]

(* clientWs.on('message') with a toolResponse frame; the first send for a  *)
(* queued duplicate fails                                                  *)
ClientToolResponseSendFails ==
  \E rs \in ToolResponseMessages :
     LET st == RunResponses(rs, <<>>, HandlerState)
     IN /\ handlersInstalled
        /\ clientWs = "OPEN"
        /\ st.suspended # <<>>
        /\ Finish(CatchSendError(HandlerState, st), handlers)

(* a suspended toolResponse handler continues; its next send for a queued  *)
(* duplicate fails                                                         *)
ResumeHandlerSendFails ==
  \E i \in 1..Len(handlers) :
     LET st == ResumeResult(handlers[i], HandlerState)
     IN /\ st.suspended # <<>>
        /\ Finish(CatchSendError(HandlerState, st),
                  SubSeq(handlers, 1, i - 1) \o SubSeq(handlers, i + 1, Len(handlers)))

(* callbacks.onmessage with a message that leaves no call pending *)
OnMessage ==
  \E msg \in SessionMessages : msg.fresh = 0 /\ UpstreamMessage(msg)

(* the activity state and the frames of a callback that is no onmessage *)
Activity == [activity |-> lastActivityState, client |-> <<>>]

SessionFrame(type) == Frame(type, "session", <<>>, <<>>)

(* callbacks.onclose *)
OnCloseResult ==
  LET idle == emitActivity(Activity, "idle")
  IN [idle EXCEPT !.client = Append(@, SessionFrame("closed"))]

(* callbacks.onerror *)
OnErrorResult ==
  LET idle == emitActivity(Activity, "idle")
  IN [idle EXCEPT !.client = Append(@, SessionFrame("error"))]

CatchResultSilent == emitActivity(Activity, "idle")

(* the catch block around live.connect *)
CatchResult ==
  LET idle == emitActivity(Activity, "idle")
  IN [idle EXCEPT !.client = Append(@, SessionFrame("error"))]

(* what a callback leaves: its activity state and the frames it sent *)
Emit(r) ==
  /\ lastActivityState' = r.activity
  /\ clientLog' = clientLog \o Lifecycle(Delivered(r.client))
  /\ activityNotes' = Notes(activityNotes, Delivered(r.client))

(* clientWs.close() *)
CloseClient == IF clientWs = "OPEN" THEN "CLOSING" ELSE clientWs

(* callbacks.onopen, and the handler going on after its await: live.connect *)
(* has resolved                                                            *)
ConnectOk ==
  /\ geminiSession = "connecting"
  /\ geminiSession' = "open"
  /\ clientLog' = clientLog \o Delivered(<<SessionFrame("connected")>>)
  /\ handlersInstalled' = TRUE
  /\ UNCHANGED <<mainVars, audioVars, otherVars, relayVars, clientWs, connectAttempts,
                 upstreamErrors, activityNotes, usedAfterEnd>>

(* live.connect rejects: the catch block *)
ConnectFail ==
  /\ geminiSession = "connecting"
  /\ geminiSession' = "failed"
  /\ Emit(CatchResult)
  /\ clientWs' = CloseClient
  /\ UNCHANGED <<pendingToolCalls, entries, recentActions, toolIdCounter,
                 lastFinalInputTranscript, currentInputTranscript,
                 handlers, upstreamSent, forwarded, callLog, nextGeminiId,
                 audioVars, otherVars, relayVars, handlersInstalled, connectAttempts,
                 upstreamErrors, usedAfterEnd>>

(* callbacks.onclose *)
UpstreamClose ==
  /\ geminiSession \in {"open", "closing"}
  /\ geminiSession' = "closed"
  /\ Emit(OnCloseResult)
  /\ clientWs' = CloseClient
  /\ UNCHANGED <<pendingToolCalls, entries, recentActions, toolIdCounter,
                 lastFinalInputTranscript, currentInputTranscript,
                 handlers, upstreamSent, forwarded, callLog, nextGeminiId,
                 audioVars, otherVars, relayVars, handlersInstalled, connectAttempts,
                 upstreamErrors, usedAfterEnd>>

(* callbacks.onerror *)
UpstreamError ==
  /\ geminiSession = "open"
  /\ upstreamErrors < MaxUpstreamErrors
  /\ upstreamErrors' = upstreamErrors + 1
  /\ Emit(OnErrorResult)
  /\ UNCHANGED <<pendingToolCalls, entries, recentActions, toolIdCounter,
                 lastFinalInputTranscript, currentInputTranscript,
                 handlers, upstreamSent, forwarded, callLog, nextGeminiId,
                 audioVars, otherVars, relayVars, clientWs, geminiSession, handlersInstalled,
                 connectAttempts, usedAfterEnd>>

(* clientWs.on('close'): geminiSession.close() when the session is set *)
AfterClientCloseOpen == geminiSession

AfterClientClose ==
  IF handlersInstalled /\ geminiSession = "open" THEN "closing" ELSE geminiSession

(* the client closes its socket *)
ClientDisconnect ==
  /\ clientWs = "OPEN"
  /\ clientWs' = "CLOSED"
  /\ geminiSession' = AfterClientClose
  /\ UNCHANGED <<mainVars, audioVars, otherVars, relayVars, handlersInstalled, connectAttempts,
                 upstreamErrors, clientLog, activityNotes, usedAfterEnd>>

(* the closing handshake that clientWs.close() began is over *)
ClientCloseEvent ==
  /\ clientWs = "CLOSING"
  /\ clientWs' = "CLOSED"
  /\ geminiSession' = AfterClientClose
  /\ UNCHANGED <<mainVars, audioVars, otherVars, relayVars, handlersInstalled, connectAttempts,
                 upstreamErrors, clientLog, activityNotes, usedAfterEnd>>

AudioPayloads == {"p", "q"}

ForwardAudioFirst(out, data) == <<data>> \o out

(* sendRealtimeInput({media: {data: message.data, mimeType: ...}}) *)
ForwardAudio(out, data) == Append(out, data)

(* clientWs.on('message') with an audio frame: sendRealtimeInput *)
ClientAudio ==
  \E data \in AudioPayloads :
     /\ handlersInstalled
     /\ clientWs = "OPEN"
     /\ Len(audioIn) < MaxAudio
     /\ audioIn' = Append(audioIn, data)
     /\ audioOut' = ForwardAudio(audioOut, data)
     /\ usedAfterEnd' = (usedAfterEnd \/ SessionEnded)
     /\ UNCHANGED <<mainVars, audioVars, otherVars, clientWs, geminiSession,
                    handlersInstalled, connectAttempts, upstreamErrors, clientLog,
                    activityNotes>>

Advance(x) == IF x + TickMs > Saturated THEN Saturated ELSE x + TickMs

AdvanceShort(x, limit) == IF x + ShortTickMs > limit THEN limit ELSE x + ShortTickMs

(* ShortTickMs of time pass *)
ShortTick ==
  /\ entries' = [id \in DOMAIN entries |->
                   [entries[id] EXCEPT !.elapsed = AdvanceShort(@, Saturated)]]
  /\ recentActions' = [k \in DOMAIN recentActions |->
                         AdvanceShort(recentActions[k], Saturated)]
  /\ sinceTurnComplete' = AdvanceShort(sinceTurnComplete, AudioSaturated)
  /\ audioCooldownLeft' = IF audioCooldownLeft > ShortTickMs
                          THEN audioCooldownLeft - ShortTickMs ELSE 0
  /\ UNCHANGED <<pendingToolCalls, toolIdCounter,
                 lastFinalInputTranscript, currentInputTranscript, lastActivityState,
                 handlers, upstreamSent, forwarded, callLog, nextGeminiId, otherVars, relayVars,
                 currentTranscription, lastCompletedTranscription, skipCurrentAudio,
                 sessionVars>>

(* TickMs of time pass *)
Tick ==
  /\ entries' = [id \in DOMAIN entries |-> [entries[id] EXCEPT !.elapsed = Advance(@)]]
  /\ recentActions' = [k \in DOMAIN recentActions |-> Advance(recentActions[k])]
  /\ sinceTurnComplete' = AudioSaturated
  /\ audioCooldownLeft' = 0
  /\ UNCHANGED <<pendingToolCalls, toolIdCounter,
                 lastFinalInputTranscript, currentInputTranscript, lastActivityState,
                 handlers, upstreamSent, forwarded, callLog, nextGeminiId, otherVars, relayVars,
                 currentTranscription, lastCompletedTranscription, skipCurrentAudio,
                 sessionVars>>

-----------------------------------------------------------------------------
(* Fingerprint runs: two calls of one tool, the second with the arguments  *)
(* of the first varied, are fingerprinted and handled as one batch by the  *)
(* batch loop of a fresh connection.                                       *)

VaryString(mode, s) ==
  CASE mode = "upper" -> [i \in 1..Len(s) |-> ToUpperChar(s[i])]
    [] mode = "pad" -> <<" ">> \o s \o <<" ">>
    [] mode = "normal" -> trim(toLowerCase(s))
    [] OTHER -> s

Reverse(q) == [i \in 1..Len(q) |-> q[Len(q) + 1 - i]]

(* every string value inside v, at any depth, varied *)
RECURSIVE VaryDeep(_, _)
VaryDeep(mode, v) ==
  IF v.t = "str" THEN Str(VaryString(mode, v.s))
  ELSE IF v.t \in {"obj", "arr"}
  THEN [v EXCEPT !.kv = [i \in 1..Len(v.kv) |-> <<v.kv[i][1], VaryDeep(mode, v.kv[i][2])>>]]
  ELSE v

(* the string values that are properties of args itself, varied *)
VaryTop(mode, args) ==
  [args EXCEPT !.kv = [i \in 1..Len(args.kv) |->
     <<args.kv[i][1],
       IF args.kv[i][2].t = "str" THEN Str(VaryString(mode, args.kv[i][2].s))
       ELSE args.kv[i][2]>>]]

(* the string values below the properties of args, varied *)
VaryNested(mode, args) ==
  [args EXCEPT !.kv = [i \in 1..Len(args.kv) |->
     <<args.kv[i][1],
       IF args.kv[i][2].t = "str" THEN args.kv[i][2]
       ELSE VaryDeep(mode, args.kv[i][2])>>]]

RenameKey(args, from, to) ==
  [args EXCEPT !.kv = [i \in 1..Len(args.kv) |->
     <<IF args.kv[i][1] = from THEN to ELSE args.kv[i][1], args.kv[i][2]>>]]

Vary(variation, args) ==
  CASE variation = "keyOrder" -> [args EXCEPT !.kv = Reverse(@)]
    [] variation = "caseTop" -> VaryTop("upper", args)
    [] variation = "padTop" -> VaryTop("pad", args)
    [] variation = "normalTop" -> VaryTop("normal", args)
    [] variation = "caseNested" -> VaryNested("upper", args)
    [] variation = "padNested" -> VaryNested("pad", args)
    [] variation = "keyCase" -> RenameKey(VaryTop("normal", args), "Title", "title")
    [] OTHER -> args

TopVariations == {"keyOrder", "caseTop", "padTop", "normalTop"}
NestedVariations == {"caseNested", "padNested"}
Variations == TopVariations \cup NestedVariations \cup {"keyCase", "same"}

Item(text) == Obj(<< <<"text", Str(text)>> >>)

ArgsTitleFooPad == Obj(<< <<"title", Str(Foo \o <<" ">>)>> >>)
ArgsCapitalTitle == Obj(<< <<"Title", Str(Foo \o <<" ">>)>> >>)
ArgsItems == Obj(<< <<"title", Str(foo)>>, <<"items", Arr(<<Item(Foo), Item(<<"m">>)>>)>> >>)
ArgsItemsFirst == Obj(<< <<"items", Arr(<<Item(<<"m", " ">>)>>)>>, <<"title", Str(Foo)>> >>)

HashArgsPool ==
  {ArgsTitle, ArgsTitlePriority, ArgsTitleFooPad, ArgsCapitalTitle, ArgsItems, ArgsItemsFirst}

HashNames == {"add_task", "save_suggestion"}

FreshLoopState ==
  LoopState(<<>>, <<>>, <<>>, 0, [g \in 1..2 |-> <<>>], <<>>, <<>>, "idle", {}, <<>>,
            FreshAudio)

(* how the batch loop classifies the second of the two calls *)
SecondCallKind(name, args1, args2) ==
  ProcessCalls(<<[id |-> 1, name |-> name, args |-> args1],
                 [id |-> 2, name |-> name, args |-> args2]>>, FreshLoopState).log[2].kind

HashInit ==
  /\ hName \in HashNames
  /\ hArgs1 \in HashArgsPool
  /\ hVariation \in Variations
  /\ hArgs2 = Vary(hVariation, hArgs1)
  /\ hOut1 = <<>> /\ hOut2 = <<>> /\ hKind = "" /\ hPhase = "input"

Fingerprint ==
  /\ hPhase = "input"
  /\ hOut1' = stableArgsHash(hName, hArgs1)
  /\ hOut2' = stableArgsHash(hName, hArgs2)
  /\ hKind' = SecondCallKind(hName, hArgs1, hArgs2)
  /\ hPhase' = "done"
  /\ UNCHANGED <<hName, hArgs1, hArgs2, hVariation, mainVars, audioVars, sessionVars,
                 relayVars, guardVars, managerVars>>

-----------------------------------------------------------------------------
(* LoopGuard: the earlier proxy of src/unnamed/part_001, which counts the  *)
(* identical tool-call messages of a connection and replaces the upstream  *)
(* session when one has come more than MAX_TOOL_CALLS times.               *)

MAX_TOOL_CALLS == 3

MaxSessions == 3       \* upstream sessions that one connection creates

(* message.toolCall of a batch of one add_task call with the id g *)
GuardToolCall(g) ==
  Obj(<< <<"functionCalls",
           Arr(<<Obj(<< <<"id", Num(<<g>>)>>, <<"name", Str(<<"add_task">>)>>,
                        <<"args", ArgsTitle>> >>)>>)>> >>)

(* the upstream messages: two tool-call messages that differ in the id of  *)
(* the call only, and a message without a tool call                        *)
GuardMessages ==
  {[toolCall |-> GuardToolCall("1")], [toolCall |-> GuardToolCall("2")],
   [toolCall |-> Undefined]}

GuardCallMessages == {m \in GuardMessages : m.toolCall # Undefined}

GuardResult == Obj(<< <<"success", Str(<<"t">>)>> >>)

(* toolResponse frames of the client: one response *)
GuardResponseMessages ==
  {<<[name |-> "add_task", result |-> v]>> : v \in {GuardResult}}

(* JSON.stringify(message.toolCall) *)
CallKey(message) == Stringify(message.toolCall)

(* `${resp.name}:${JSON.stringify(resp.response?.result)}` *)
ResponseKey(resp) ==
  <<resp.name, ":">> \o (IF resp.result = Undefined THEN <<"undefined">>
                         ELSE Stringify(resp.result))

(* toolCallCounts.get(key) || 0 *)
CountOf(counts, key) == IF key \in DOMAIN counts THEN counts[key] ELSE 0

(* toolCallCounts.set(key, count) with count one more than before *)
Counted(counts, key) ==
  [k \in DOMAIN counts \cup {key} |-> IF k = key THEN CountOf(counts, key) + 1 ELSE counts[k]]

LoopDetectedAtLimit(count) == count >= MAX_TOOL_CALLS

(* count > MAX_TOOL_CALLS *)
LoopDetected(count) == count > MAX_TOOL_CALLS

(* the state a handler of the connection works on, and what it leaves:     *)
(* client are the frames it sends, reset says that it closed the session   *)
(* and created another, sent that it called sendToolResponse               *)
GuardState ==
  [counts |-> toolCallCounts, reconnecting |-> isReconnecting, client |-> <<>>,
   reset |-> FALSE, sent |-> FALSE]

(* callbacks.onmessage *)
GuardOnMessage(message, st) ==
  LET callKey == CallKey(message)
      counts == Counted(st.counts, callKey)
  IN IF message.toolCall = Undefined
     THEN [st EXCEPT !.client = Append(@, "message")]
     ELSE IF LoopDetected(counts[callKey])
     THEN [st EXCEPT !.counts = <<>>, !.reconnecting = TRUE, !.reset = TRUE,
                     !.client = Append(@, "loop_detected")]
     ELSE [st EXCEPT !.counts = counts, !.client = Append(@, "message")]

(* the loop of clientWs.on('message') over message.responses *)
RECURSIVE CountResponses(_, _)
CountResponses(responses, st) ==
  IF responses = <<>> THEN st
  ELSE LET key == ResponseKey(Head(responses))
           counts == Counted(st.counts, key)
       IN CountResponses(Tail(responses),
                         [st EXCEPT !.counts = counts,
                                    !.sent = @ /\ ~LoopDetected(counts[key])])

(* clientWs.on('message') with a toolResponse frame *)
GuardOnToolResponse(responses, st) == CountResponses(responses, [st EXCEPT !.sent = TRUE])

(* a send on a socket that is not OPEN delivers nothing *)
GuardDelivered(frames) == IF lgClientWs = "OPEN" THEN frames ELSE <<>>

Lifecycle1(frames) == SelectSeq(frames, LAMBDA f : f # "message")

(* session.close() *)
CloseSession(sessions, i) ==
  IF i \in DOMAIN sessions /\ sessions[i] = "open"
  THEN [sessions EXCEPT ![i] = "closing"] ELSE sessions

(* clientWs.close() *)
GuardCloseClient == IF lgClientWs = "OPEN" THEN "CLOSING" ELSE lgClientWs

(* callbacks.onopen, and live.connect resolving: the session is assigned   *)
(* to geminiSession and, for the first session, the client handlers are    *)
(* installed                                                               *)
LgSessionOpen ==
  \E i \in DOMAIN lgSessions :
     /\ lgSessions[i] = "connecting"
     /\ lgSessions' = [lgSessions EXCEPT ![i] = "open"]
     /\ lgAnnounced' = [lgAnnounced EXCEPT
                          ![i] = IF isReconnecting THEN "reconnected" ELSE "connected"]
     /\ lgClientLog' = lgClientLog \o GuardDelivered(<<lgAnnounced'[i]>>)
     /\ isReconnecting' = FALSE
     /\ lgGeminiSession' = i
     /\ lgHandlersInstalled' = TRUE
     /\ UNCHANGED <<notGuardVars, toolCallCounts, lgClientWs, lgClosedBy, lgReset,
                    lgAudioTo, lgErrors>>

(* live.connect rejects: the catch block of the first connect, or the      *)
(* catch of the reconnect                                                  *)
LgConnectFail ==
  \E i \in DOMAIN lgSessions :
     /\ lgSessions[i] = "connecting"
     /\ lgSessions' = [lgSessions EXCEPT ![i] = "failed"]
     /\ lgClientLog' = lgClientLog \o GuardDelivered(<<"error">>)
     /\ lgClientWs' = IF lgHandlersInstalled THEN lgClientWs ELSE GuardCloseClient
     /\ UNCHANGED <<notGuardVars, lgGeminiSession, isReconnecting, toolCallCounts, lgHandlersInstalled,
                    lgAnnounced, lgClosedBy, lgReset, lgAudioTo, lgErrors>>

(* callbacks.onmessage of an open session *)
LgOnMessage ==
  \E i \in DOMAIN lgSessions, message \in GuardMessages :
     /\ lgSessions[i] = "open"
     /\ LET r == GuardOnMessage(message, GuardState)
        IN /\ r.reset => Len(lgSessions) < MaxSessions
           /\ toolCallCounts' = r.counts
           /\ isReconnecting' = r.reconnecting
           /\ lgClientLog' = lgClientLog \o Lifecycle1(GuardDelivered(r.client))
           /\ lgSessions' = IF r.reset
                            THEN Append(CloseSession(lgSessions, lgGeminiSession), "connecting")
                            ELSE lgSessions
           /\ lgAnnounced' = IF r.reset THEN Append(lgAnnounced, "") ELSE lgAnnounced
           /\ lgReset' = IF r.reset THEN lgReset \cup {lgGeminiSession} ELSE lgReset
     /\ UNCHANGED <<notGuardVars, lgGeminiSession, lgClientWs, lgHandlersInstalled,
                    lgClosedBy, lgAudioTo, lgErrors>>

(* callbacks.onclose: the upstream has closed the session, or the close    *)
(* that session.close() began is over                                      *)
LgSessionClose ==
  \E i \in DOMAIN lgSessions :
     /\ lgSessions[i] \in {"open", "closing"}
     /\ lgSessions' = [lgSessions EXCEPT ![i] = "closed"]
     /\ IF lgClientWs = "OPEN" /\ ~isReconnecting
        THEN /\ lgClientLog' = Append(lgClientLog, "closed")
             /\ lgClientWs' = "CLOSING"
             /\ lgClosedBy' = i
        ELSE UNCHANGED <<lgClientLog, lgClientWs, lgClosedBy>>
     /\ UNCHANGED <<notGuardVars, lgGeminiSession, isReconnecting, toolCallCounts, lgHandlersInstalled,
                    lgAnnounced, lgReset, lgAudioTo, lgErrors>>

(* callbacks.onerror *)
LgSessionError ==
  \E i \in DOMAIN lgSessions :
     /\ lgSessions[i] = "open"
     /\ lgErrors < MaxUpstreamErrors
     /\ lgErrors' = lgErrors + 1
     /\ lgClientLog' = lgClientLog \o GuardDelivered(<<"error">>)
     /\ UNCHANGED <<notGuardVars, lgSessions, lgGeminiSession, isReconnecting, toolCallCounts,
                    lgClientWs, lgHandlersInstalled, lgAnnounced, lgClosedBy, lgReset,
                    lgAudioTo>>

(* clientWs.on('message') with an audio frame *)
LgClientAudio ==
  /\ lgHandlersInstalled
  /\ lgClientWs = "OPEN"
  /\ lgAudioTo' = lgGeminiSession
  /\ UNCHANGED <<notGuardVars, lgSessions, lgGeminiSession, isReconnecting,
                 toolCallCounts, lgClientWs, lgHandlersInstalled, lgClientLog,
                 lgAnnounced, lgClosedBy, lgReset, lgErrors>>

(* clientWs.on('message') with a toolResponse frame *)
LgClientToolResponse ==
  \E responses \in GuardResponseMessages :
     /\ lgHandlersInstalled
     /\ lgClientWs = "OPEN"
     /\ LET r == GuardOnToolResponse(responses, GuardState)
        IN /\ \A k \in DOMAIN r.counts : r.counts[k] <= MAX_TOOL_CALLS + 1
           /\ toolCallCounts' = r.counts
     /\ UNCHANGED <<notGuardVars, lgSessions, lgGeminiSession, isReconnecting,
                    lgClientWs, lgHandlersInstalled, lgClientLog, lgAnnounced, lgClosedBy,
                    lgReset, lgAudioTo, lgErrors>>

(* clientWs.on('close'): geminiSession.close() when the handler is set *)
GuardAfterClientClose ==
  IF lgHandlersInstalled THEN CloseSession(lgSessions, lgGeminiSession) ELSE lgSessions

(* the client closes its socket *)
LgClientDisconnect ==
  /\ lgClientWs = "OPEN"
  /\ lgClientWs' = "CLOSED"
  /\ lgSessions' = GuardAfterClientClose
  /\ UNCHANGED <<notGuardVars, lgGeminiSession, isReconnecting, toolCallCounts, lgHandlersInstalled,
                 lgClientLog, lgAnnounced, lgClosedBy, lgReset, lgAudioTo, lgErrors>>

(* the closing handshake that clientWs.close() began is over *)
LgClientCloseEvent ==
  /\ lgClientWs = "CLOSING"
  /\ lgClientWs' = "CLOSED"
  /\ lgSessions' = GuardAfterClientClose
  /\ UNCHANGED <<notGuardVars, lgGeminiSession, isReconnecting, toolCallCounts, lgHandlersInstalled,
                 lgClientLog, lgAnnounced, lgClosedBy, lgReset, lgAudioTo, lgErrors>>

(* no LoopGuard connection *)
GuardIdle ==
  /\ lgSessions = <<>> /\ lgGeminiSession = 0 /\ isReconnecting = FALSE
  /\ toolCallCounts = <<>> /\ lgClientWs = "CLOSED" /\ lgHandlersInstalled = FALSE
  /\ lgClientLog = <<>> /\ lgAnnounced = <<>> /\ lgClosedBy = 0 /\ lgReset = {}
  /\ lgAudioTo = 0 /\ lgErrors = 0

(* the connection handler has called createGeminiSession *)
GuardConnecting ==
  /\ lgSessions = <<"connecting">> /\ lgGeminiSession = 0 /\ isReconnecting = FALSE
  /\ toolCallCounts = <<>> /\ lgClientWs = "OPEN" /\ lgHandlersInstalled = FALSE
  /\ lgClientLog = <<>> /\ lgAnnounced = <<"">> /\ lgClosedBy = 0 /\ lgReset = {}
  /\ lgAudioTo = 0 /\ lgErrors = 0

-----------------------------------------------------------------------------
(* The client: LiveManager of src/unnamed/part_006, which runs the tools   *)
(* of the forwarded batches and answers with toolResponse frames.          *)

TOOL_TIMEOUT_MS == 15000

MaxBatches == 2        \* batches of tool calls that the client receives

(* the calls of the forwarded batches, under internal ids *)
ManagerCalls ==
  {[id |-> InternalId(n), name |-> x] : n \in 1..2, x \in {"add_task"}}
    \cup {[id |-> InternalId(3), name |-> "get_calendar_events"]}

ManagerBatches ==
  {<<c>> : c \in ManagerCalls}
    \cup {p \in ManagerCalls \X ManagerCalls : p[2].id < p[1].id}

(* what the tool handler of the application returns: an object *)
ToolResults == {"t1", "t2"}

(* how a tool execution ends *)
Outcomes == {[kind |-> "returned", result |-> v] : v \in ToolResults}
              \cup {[kind |-> "threw", result |-> NoResult],
                    [kind |-> "timeout", result |-> NoResult]}

ManagerResponseUnderName(fc, outcome) ==
  [id |-> InternalId(0), name |-> fc.name, response |-> Error("Failed to execute")]

(* result || { success: true } *)
ResultOrSuccess(result) == IF result = NoResult THEN "success" ELSE result

(* the response that handleGeminiMessage pushes for the call fc *)
ManagerResponse(fc, outcome) ==
  [id |-> fc.id, name |-> fc.name,
   response |-> IF outcome.kind = "returned" THEN Result(ResultOrSuccess(outcome.result))
                ELSE Error("Failed to execute")]

(* the run r of handleGeminiMessage after its awaited tool has ended *)
AfterTool(r, outcome) ==
  [r EXCEPT !.responses = Append(@, ManagerResponse(r.batch[r.i], outcome)),
            !.outcomes = Append(@, outcome),
            !.i = @ + 1,
            !.waited = 0]

Without(q, k) == SubSeq(q, 1, k - 1) \o SubSeq(q, k + 1, Len(q))

(* the tool of the run k has ended: the loop goes on to the next call, or  *)
(* the responses are sent when the socket is open                          *)
ToolEnds(k, outcome) ==
  LET r == AfterTool(running[k], outcome)
  IN IF r.i <= Len(r.batch)
     THEN /\ running' = [running EXCEPT ![k] = r]
          /\ UNCHANGED <<wsSent, runsEnded>>
     ELSE /\ running' = Without(running, k)
          /\ wsSent' = IF Len(r.responses) > 0 /\ ws = "OPEN"
                       THEN Append(wsSent, [tag |-> r.tag, responses |-> r.responses])
                       ELSE wsSent
          /\ runsEnded' = Append(runsEnded, [tag |-> r.tag, batch |-> r.batch,
                                           outcomes |-> r.outcomes, open |-> ws = "OPEN"])

(* ws.onmessage with a message frame that carries a tool call:             *)
(* handleGeminiMessage up to its first await                               *)
ManagerReceive ==
  \E batch \in ManagerBatches :
     /\ ws = "OPEN"
     /\ ~manuallyDisconnecting
     /\ batchesReceived < MaxBatches
     /\ batchesReceived' = batchesReceived + 1
     /\ running' = Append(running, [tag |-> batchesReceived', batch |-> batch, i |-> 1,
                                    responses |-> <<>>, outcomes |-> <<>>, waited |-> 0])
     /\ UNCHANGED <<notManagerVars, ws, manuallyDisconnecting, wsSent, runsEnded>>

(* onToolCall resolves before the timer fires *)
ToolReturns ==
  \E k \in DOMAIN running, v \in ToolResults :
     /\ ToolEnds(k, [kind |-> "returned", result |-> v])
     /\ UNCHANGED <<notManagerVars, ws, manuallyDisconnecting, batchesReceived>>

(* onToolCall rejects before the timer fires *)
ToolThrows ==
  \E k \in DOMAIN running :
     /\ ToolEnds(k, [kind |-> "threw", result |-> NoResult])
     /\ UNCHANGED <<notManagerVars, ws, manuallyDisconnecting, batchesReceived>>

(* the timer of runToolWithTimeout fires *)
ToolTimeout ==
  \E k \in DOMAIN running :
     /\ running[k].waited >= TOOL_TIMEOUT_MS
     /\ ToolEnds(k, [kind |-> "timeout", result |-> NoResult])
     /\ UNCHANGED <<notManagerVars, ws, manuallyDisconnecting, batchesReceived>>

(* TOOL_TIMEOUT_MS pass *)
ManagerTick ==
  /\ \E k \in DOMAIN running : running[k].waited < TOOL_TIMEOUT_MS
  /\ running' = [k \in DOMAIN running |-> [running[k] EXCEPT !.waited = TOOL_TIMEOUT_MS]]
  /\ UNCHANGED <<notManagerVars, ws, manuallyDisconnecting, wsSent, runsEnded, batchesReceived>>

(* disconnect() *)
ManagerDisconnect ==
  /\ ~manuallyDisconnecting
  /\ manuallyDisconnecting' = TRUE
  /\ ws' = "CLOSED"
  /\ UNCHANGED <<notManagerVars, running, wsSent, runsEnded, batchesReceived>>

(* the socket closes: the server has closed it, or the network has *)
SocketCloses ==
  /\ ws = "OPEN"
  /\ ws' = "CLOSED"
  /\ UNCHANGED <<notManagerVars, manuallyDisconnecting, running, wsSent, runsEnded, batchesReceived>>

(* no client *)
ManagerIdle ==
  /\ ws = "CLOSED" /\ manuallyDisconnecting = FALSE /\ running = <<>>
  /\ wsSent = <<>> /\ runsEnded = <<>> /\ batchesReceived = 0

(* the client is connected *)
ManagerConnected ==
  /\ ws = "OPEN" /\ manuallyDisconnecting = FALSE /\ running = <<>>
  /\ wsSent = <<>> /\ runsEnded = <<>> /\ batchesReceived = 0

-----------------------------------------------------------------------------
(* Specifications *)

HashIdle ==
  /\ hName = "" /\ hArgs1 = Undefined /\ hArgs2 = Undefined /\ hVariation = ""
  /\ hOut1 = <<>> /\ hOut2 = <<>> /\ hKind = "" /\ hPhase = "idle"

Next ==
  \/ OnToolCall
  \/ OnOther
  \/ ClientToolResponse
  \/ ResumeHandler
  \/ Tick

Init == InitMain /\ Connected /\ HashIdle /\ GuardIdle /\ ManagerIdle

Spec == Init /\ [][Next]_vars

(* the connection before any client answer: transcripts and tool calls *)
NextInput ==
  \/ OnToolCall
  \/ OnInputTranscription

SpecInput == Init /\ [][NextInput]_vars

(* one connection from live.connect to its end, without forwarded calls *)
NextSession ==
  \/ ConnectOk
  \/ ConnectFail
  \/ OnMessage
  \/ UpstreamClose
  \/ UpstreamError
  \/ ClientDisconnect
  \/ ClientCloseEvent
  \/ ClientAudio
  \/ ShortTick

InitSession == InitMain /\ Connecting /\ HashIdle /\ GuardIdle /\ ManagerIdle

SpecSession == InitSession /\ [][NextSession]_vars

(* batches of one add_task call that carries an id *)
TaskCallMessages(base) ==
  {Message("toolCall", Batch(<<[name |-> "add_task", args |-> ArgsTitle]>>, <<TRUE>>, base),
           1, <<>>, FALSE)}

(* callbacks.onmessage with one add_task call *)
OnTaskCall ==
  \E msg \in TaskCallMessages(nextGeminiId) : msg.fresh = 1 /\ UpstreamMessage(msg)

(* one connection with forwarded calls, client audio and the client's     *)
(* disconnect                                                              *)
NextTeardown ==
  \/ OnTaskCall
  \/ OnOther
  \/ ClientToolResponse
  \/ ResumeHandler
  \/ ClientAudio
  \/ ClientDisconnect
  \/ ClientCloseEvent
  \/ UpstreamClose
  \/ Tick

SpecTeardown == Init /\ [][NextTeardown]_vars

(* the connection with sends to the upstream that can fail *)
NextSendFail ==
  \/ OnToolCall
  \/ ClientToolResponse
  \/ ResumeHandler
  \/ ClientToolResponseSendFails
  \/ ResumeHandlerSendFails

SpecSendFail == Init /\ [][NextSendFail]_vars

InitHash == InitMain /\ Connected /\ HashInit /\ GuardIdle /\ ManagerIdle

NextHash == Fingerprint

SpecHash == InitHash /\ [][NextHash]_vars

(* one LoopGuard connection from createGeminiSession to its end *)
NextGuard ==
  \/ LgSessionOpen
  \/ LgConnectFail
  \/ LgOnMessage
  \/ LgSessionClose
  \/ LgSessionError
  \/ LgClientAudio
  \/ LgClientToolResponse
  \/ LgClientDisconnect
  \/ LgClientCloseEvent

InitGuard == InitMain /\ Connected /\ HashIdle /\ GuardConnecting /\ ManagerIdle

SpecGuard == InitGuard /\ [][NextGuard]_vars

(* one client that receives batches of tool calls *)
NextManager ==
  \/ ManagerReceive
  \/ ToolReturns
  \/ ToolThrows
  \/ ToolTimeout
  \/ ManagerTick
  \/ ManagerDisconnect
  \/ SocketCloses

InitManager == InitMain /\ Connected /\ HashIdle /\ GuardIdle /\ ManagerConnected

(* a timer that is due fires, and time passes *)
SpecManager ==
  InitManager /\ [][NextManager]_vars /\ WF_vars(ToolTimeout) /\ WF_vars(ManagerTick)

-----------------------------------------------------------------------------
(* Properties *)

Entry(k) == entries[pendingToolCalls[k]]

Calls == DOMAIN callLog

Classified == {"new", "dupQueued", "dupLate", "dupCached", "semantic", "thought"}

Responses(g) == upstreamSent[g]

(* the call's answer does not wait for a client result *)
AnsweredAtOnce(g) == callLog[g].kind \in {"dupCached", "semantic", "thought"}

(* the canonical call of g has been resolved or timed out, and no          *)
(* toolResponse handler is still at work                                   *)
CanonicalSettled(g) ==
  /\ handlers = <<>>
  /\ \/ callLog[g].entry \notin DOMAIN entries
     \/ entries[callLog[g].entry].responded

(* C1: every upstream call that carries an id and was classified by the    *)
(* batch loop gets exactly one tool response: never two, and never zero    *)
(* once its canonical call has been resolved or timed out.                 *)
C1_ExactlyOneResponse ==
  \A g \in Calls :
     callLog[g].kind \in Classified =>
        /\ Len(Responses(g)) <= 1
        /\ (AnsweredAtOnce(g) \/ CanonicalSettled(g)) => Len(Responses(g)) = 1

(* C2: of the calls that share a fingerprint and arrive before the         *)
(* canonical call is resolved, exactly the first is forwarded to the       *)
(* client, and every other one is on the duplicate lists of the canonical  *)
(* entry and is not forwarded.                                             *)
C2_AtMostOneForward ==
  \A k \in DOMAIN pendingToolCalls :
     ~Entry(k).responded =>
        /\ Entry(k).originalId \in forwarded
        /\ Range(Entry(k).duplicateIds) \cap forwarded = {}
        /\ \A g \in Calls :
              (callLog[g].entry = Entry(k).originalId /\ callLog[g].kind # "new")
                 => g \in Range(Entry(k).duplicateGeminiIds)

(* the delay the claim allows beyond MAX_PENDING *)
EpsilonMs == TickMs

(* C3: a forwarded call that the client has not answered has its timeout   *)
(* error sent upstream no later than MAX_PENDING plus a bounded delay      *)
(* after it was registered, whatever the upstream does in the meantime.    *)
C3_TimeoutDeadline ==
  \A k \in DOMAIN pendingToolCalls :
     (/\ Entry(k).originalId \in forwarded
      /\ ~Entry(k).responded
      /\ Entry(k).elapsed > MAX_PENDING_TOOL_MS + EpsilonMs)
        => \E i \in 1..Len(Responses(Entry(k).geminiId)) :
              Responses(Entry(k).geminiId)[i] = TimeoutResponse

(* the id names no unresolved entry of the map *)
StaleId(id) ==
  \A k \in DOMAIN pendingToolCalls : Entry(k).originalId = id => Entry(k).responded

Single(rs) == Len(rs) = 1

(* C4: a toolResponse whose ids all name entries that are already          *)
(* responded, or no entry, sends nothing and changes nothing; a response   *)
(* delivered twice, in one frame or in two, has the effect of one.         *)
C4_IdempotentCompletion ==
  \A rs \in ToolResponseMessages :
     LET once == HandleToolResponse(rs, HandlerState)
     IN /\ (\A i \in 1..Len(rs) : StaleId(rs[i].id))
              => RunResponses(rs, <<>>, HandlerState) = HandlerState
        /\ HandleToolResponse(rs, once) = once
        /\ Single(rs) => HandleToolResponse(rs \o rs, HandlerState) = once

C4_Witness ==
  \E k \in DOMAIN pendingToolCalls :
     /\ Entry(k).responded
     /\ Entry(k).originalId \in forwarded
     /\ Len(Responses(Entry(k).geminiId)) = 1
     /\ Responses(Entry(k).geminiId)[1] \in ClientResponses

Occurrences(q, x) == Cardinality({i \in 1..Len(q) : q[i] = x})

Repeat(n, x) == [i \in 1..n |-> x]

C6_FingerprintStable ==
  (hPhase = "done" /\ hVariation \in TopVariations \cup NestedVariations)
     => hOut1 = hOut2

(* C7, as stated: arguments that differ in the case of a key name and in   *)
(* the case and padding of its string value, as {Title:"Foo "} and         *)
(* {title:"foo"}, have one fingerprint and the second call is an exact     *)
(* duplicate of the first.                                                 *)
C7_KeyCaseCollides ==
  (hPhase = "done" /\ hVariation = "keyCase" /\ HasKey(hArgs1, "Title"))
     => (hOut1 = hOut2 /\ hKind = "dupQueued")

ValueVariations == {"caseTop", "padTop", "normalTop"}

(* C7, amended: arguments with the same keys that differ only in the case  *)
(* and padding of the string values of those keys, as {title:"Foo "} and   *)
(* {title:"foo"}, have one fingerprint and the second call is an exact     *)
(* duplicate of the first.                                                 *)
C7_ValueCaseCollides ==
  (hPhase = "done" /\ hVariation \in ValueVariations)
     => (hOut1 = hOut2 /\ hKind = "dupQueued")

C7_Witness ==
  /\ hPhase = "done"
  /\ hVariation = "normalTop"
  /\ hArgs1 = ArgsTitleFooPad
  /\ hArgs2 = ArgsTitle
  /\ hOut1 = hOut2
  /\ hKind = "dupQueued"

UpstreamBatches == {msg \in ToolCallMessages(nextGeminiId) : WellFormed(msg)}

FramesOf(client, type) == {j \in 1..Len(client) : client[j].type = type}

ForwardedCalls(client) ==
  UNION {Range(client[j].calls) : j \in FramesOf(client, "message")}

ThoughtCalls(msg) == {i \in 1..Len(msg.calls) : msg.calls[i].name = "log_thought"}

(* C8: for every log_thought call of an upstream batch a thought frame is  *)
(* sent to the client and a success response is sent upstream under the    *)
(* call's id; the call is not in the batch forwarded to the client and no  *)
(* pending entry and no action-dedup entry is made for it.                 *)
C8_LogThoughtHandled ==
  \A msg \in UpstreamBatches :
     LET r == OnMessageResult(msg)
     IN /\ Cardinality(FramesOf(r.client, "thought")) = Cardinality(ThoughtCalls(msg))
        /\ \A i \in ThoughtCalls(msg) :
              /\ \E j \in FramesOf(r.client, "thought") :
                    r.client[j].text = FieldOrEmpty(msg.calls[i].args, "thought")
              /\ msg.calls[i].id # NoId => r.sent[msg.calls[i].id] = <<ThoughtResponse>>
              /\ \A fc \in ForwardedCalls(r.client) : fc.name # "log_thought"
              /\ \A id \in DOMAIN r.ents : r.ents[id].name # "log_thought"
        /\ (msg.calls # <<>> /\ ThoughtCalls(msg) = DOMAIN msg.calls)
              => (DOMAIN r.pend \subseteq DOMAIN pendingToolCalls
                    /\ DOMAIN r.recent \subseteq DOMAIN recentActions)

MissingIds(msg) ==
  {i \in 1..Len(msg.calls) : msg.calls[i].name # "log_thought" /\ msg.calls[i].id = NoId}

FirstMissingId(msg) == CHOOSE i \in MissingIds(msg) : \A j \in MissingIds(msg) : i <= j

(* the calls the loop registers before it meets the call without an id *)
IdentifiedBefore(msg) ==
  {i \in 1..(FirstMissingId(msg) - 1) : msg.calls[i].name # "log_thought"}

(* (lastFinalInputTranscript || currentInputTranscript).trim() *)
LastKnownTranscript ==
  trim(IF lastFinalInputTranscript # <<>> THEN lastFinalInputTranscript
       ELSE currentInputTranscript)

NoEntryForMissingId(msg, r) ==
  /\ \A id \in DOMAIN r.ents : r.ents[id].geminiId # NoId
  /\ r.counter = toolIdCounter + Cardinality(IdentifiedBefore(msg))
  /\ DOMAIN r.pend \subseteq
        DOMAIN pendingToolCalls
          \cup {stableArgsHash(msg.calls[i].name, msg.calls[i].args) : i \in IdentifiedBefore(msg)}
  /\ DOMAIN r.recent \subseteq
        DOMAIN recentActions
          \cup {actionKey(msg.calls[i].name, msg.calls[i].args) : i \in IdentifiedBefore(msg)}

(* C9, as stated: a batch with a call (not log_thought) that has no id     *)
(* makes the proxy send the client an error frame and a fallback_text      *)
(* frame with the last known transcript, and add no entry for the call.    *)
C9_ErrorAndFallback ==
  \A msg \in UpstreamBatches :
     MissingIds(msg) # {} =>
        LET r == OnMessageResult(msg)
        IN /\ Cardinality(FramesOf(r.client, "error")) = 1
           /\ Cardinality(FramesOf(r.client, "fallback_text")) = 1
           /\ \A j \in FramesOf(r.client, "fallback_text") :
                 r.client[j].text = LastKnownTranscript
           /\ NoEntryForMissingId(msg, r)

(* C9, amended: such a batch makes the proxy send the client one error     *)
(* frame and, only when the trimmed last known transcript is not empty,    *)
(* one fallback_text frame that carries it, after which both transcripts   *)
(* are cleared; with no transcript known no fallback_text frame is sent.   *)
(* No entry is added for the call.                                         *)
C9_ErrorAndFallbackIfKnown ==
  \A msg \in UpstreamBatches :
     MissingIds(msg) # {} =>
        LET r == OnMessageResult(msg)
        IN /\ Cardinality(FramesOf(r.client, "error")) = 1
           /\ Cardinality(FramesOf(r.client, "fallback_text"))
                 = (IF LastKnownTranscript # <<>> THEN 1 ELSE 0)
           /\ \A j \in FramesOf(r.client, "fallback_text") :
                 r.client[j].text = LastKnownTranscript
           /\ LastKnownTranscript # <<>> => (r.lastFinal = <<>> /\ r.curInput = <<>>)
           /\ LastKnownTranscript = <<>>
                 => (r.lastFinal = lastFinalInputTranscript
                       /\ r.curInput = currentInputTranscript)
           /\ NoEntryForMissingId(msg, r)

(* a transcript is known and a batch with a call without an id gets the    *)
(* fallback_text frame that carries it                                     *)
C9_Witness ==
  /\ LastKnownTranscript = <<"m">>
  /\ pendingToolCalls # <<>>
  /\ \E msg \in UpstreamBatches :
        /\ MissingIds(msg) # {}
        /\ IdentifiedBefore(msg) # {}
        /\ \E j \in FramesOf(OnMessageResult(msg).client, "fallback_text") :
              OnMessageResult(msg).client[j].text = <<"m">>

UpstreamEvents == UpstreamBatches \cup {OtherMessage}

IsPrefix(p, q) == Len(p) <= Len(q) /\ SubSeq(q, 1, Len(p)) = p

(* C10: the sweep at the start of every upstream event sends a timeout     *)
(* error for the upstream id and for every queued duplicate id of each     *)
(* entry that is not responded and older than MAX_PENDING, and removes the *)
(* entry; an entry that is not responded and not older is left as it is    *)
(* and nothing is sent for it.  (The batch that follows the sweep in the   *)
(* same event may queue new duplicates on an entry that was left.)         *)
C10_Sweep ==
  \A msg \in UpstreamEvents :
     LET r == OnMessageResult(msg)
     IN \A k \in DOMAIN pendingToolCalls :
           LET e == Entry(k)
               ref == pendingToolCalls[k]
               ids == {e.geminiId} \cup Range(e.duplicateGeminiIds)
           IN ~e.responded =>
                 IF e.elapsed > MAX_PENDING_TOOL_MS
                 THEN /\ \A g \in ids : r.sent[g] = Append(upstreamSent[g], TimeoutResponse)
                      /\ ref \notin Range(r.pend)
                 ELSE /\ \A g \in ids : r.sent[g] = upstreamSent[g]
                      /\ k \in DOMAIN r.pend
                      /\ r.pend[k] = ref
                      /\ [r.ents[ref] EXCEPT !.duplicateIds = e.duplicateIds,
                                             !.duplicateGeminiIds = e.duplicateGeminiIds] = e
                      /\ IsPrefix(e.duplicateIds, r.ents[ref].duplicateIds)
                      /\ IsPrefix(e.duplicateGeminiIds, r.ents[ref].duplicateGeminiIds)
                      /\ msg = OtherMessage => r.ents[ref] = e

C10_Witness ==
  \E g \in Calls :
     /\ callLog[g].kind = "dupQueued"
     /\ callLog[g].entry \notin DOMAIN entries
     /\ Responses(g) = <<TimeoutResponse>>
     /\ \E c \in Calls :
           /\ callLog[c].kind = "new"
           /\ callLog[c].entry = callLog[g].entry
           /\ Responses(c) = <<TimeoutResponse>>

(* the calls answered through one entry *)
ResolvedThrough(ref) == {g \in Calls : callLog[g].entry = ref}

(* C11: the pending map holds at most one entry per fingerprint, each      *)
(* under the fingerprint of its canonical call, and all answers sent for   *)
(* the calls resolved through one entry (the canonical call, the queued    *)
(* duplicates, the duplicates answered from the cache) are the same.       *)
C11_OneEntryOneResult ==
  /\ \A k1 \in DOMAIN pendingToolCalls : \A k2 \in DOMAIN pendingToolCalls :
        pendingToolCalls[k1] = pendingToolCalls[k2] => k1 = k2
  /\ \A g \in Calls :
        (callLog[g].kind = "new" /\ callLog[g].entry \in Range(pendingToolCalls))
           => (/\ callLog[g].key \in DOMAIN pendingToolCalls
               /\ pendingToolCalls[callLog[g].key] = callLog[g].entry
               /\ Entry(callLog[g].key).geminiId = g)
  /\ \A g1 \in Calls : \A g2 \in Calls :
        (callLog[g1].entry # NoEntry /\ callLog[g1].entry = callLog[g2].entry)
           => (/\ callLog[g1].key = callLog[g2].key
               /\ \A i \in 1..Len(Responses(g1)) : \A j \in 1..Len(Responses(g2)) :
                     Responses(g1)[i] = Responses(g2)[j])

C11_Witness ==
  \E ref \in Range(pendingToolCalls) :
     /\ \E g \in ResolvedThrough(ref) : callLog[g].kind = "new" /\ Responses(g) # <<>>
     /\ \E g \in ResolvedThrough(ref) : callLog[g].kind = "dupQueued" /\ Responses(g) # <<>>
     /\ \E g \in ResolvedThrough(ref) : callLog[g].kind = "dupCached" /\ Responses(g) # <<>>

IsInternalId(id) == id < 0

(* C12: every call forwarded to the client carries a fresh internal id in  *)
(* place of its upstream id, no upstream id reaches the client, internal   *)
(* ids are pairwise distinct, and an id of a toolResponse matches at most  *)
(* one pending entry.                                                      *)
C12_InternalIds ==
  /\ \A id \in forwarded : IsInternalId(id)
  /\ \A id \in DOMAIN entries : entries[id].originalId = id /\ IsInternalId(id)
  /\ \A id \in forwarded \cup {UnknownId} :
        Cardinality({k \in DOMAIN pendingToolCalls : Entry(k).originalId = id}) <= 1
  /\ \A g1 \in Calls : \A g2 \in Calls :
        (callLog[g1].kind = "new" /\ callLog[g2].kind = "new" /\ g1 # g2)
           => callLog[g1].entry # callLog[g2].entry
  /\ \A msg \in UpstreamBatches :
        LET r == OnMessageResult(msg)
            sentCalls == UNION {{<<j, i>> : i \in 1..Len(r.client[j].calls)}
                                  : j \in FramesOf(r.client, "message")}
        IN \A p \in sentCalls :
              LET fc == r.client[p[1]].calls[p[2]]
              IN /\ IsInternalId(fc.id)
                 /\ fc.id \notin forwarded
                 /\ fc.id \notin DOMAIN entries
                 /\ \A i \in 1..Len(msg.calls) : fc.id # msg.calls[i].id
                 /\ \A q \in sentCalls : q # p =>
                       r.client[q[1]].calls[q[2]].id # fc.id

C12_Witness ==
  /\ Cardinality(forwarded) >= 2
  /\ Cardinality(DOMAIN pendingToolCalls) >= 2
  /\ \A k \in DOMAIN pendingToolCalls : Entry(k).originalId \in forwarded

ArgsQuery == Obj(<< <<"query", Str(<<"m">>)>> >>)

(* the batches of the upstream and those with a call of a tool that is no  *)
(* action tool, which is new next to an add_task call                      *)
WideCallPool == CallPool \cup {[name |-> "get_calendar_events", args |-> ArgsQuery]}

WideBatches ==
  UNION {{Message("toolCall", Batch(cs, has, nextGeminiId),
                  Cardinality({j \in 1..n : has[j]}), <<>>, FALSE)
            : cs \in [1..n -> WideCallPool], has \in [1..n -> BOOLEAN]}
           : n \in BatchLengths}

WideUpstreamBatches == {msg \in WideBatches : WellFormed(msg)}

(* the calls of the batch that the loop classified as new, in arrival      *)
(* order, under their internal ids                                         *)
NewCalls(msg, r) ==
  LET isNew(fc) == fc.id # NoId /\ r.log[fc.id].kind = "new"
      new == SelectSeq(msg.calls, isNew)
  IN [i \in 1..Len(new) |-> [new[i] EXCEPT !.id = r.log[new[i].id].entry]]

(* C13: for one upstream tool-call event the client gets at most one       *)
(* message frame; the frame holds exactly the new calls of the batch in    *)
(* arrival order; no frame is sent when no call is new; the new calls are  *)
(* sent all or not at all, and the unfiltered batch is never forwarded.    *)
C13_OneAtomicBatch ==
  \A msg \in WideUpstreamBatches :
     LET r == OnMessageResult(msg)
         frames == FramesOf(r.client, "message")
     IN /\ Cardinality(frames) <= 1
        /\ \A j \in frames : r.client[j].calls = NewCalls(msg, r)
        /\ NewCalls(msg, r) = <<>> => frames = {}
        /\ (NewCalls(msg, r) # <<>> /\ MissingIds(msg) = {}) => Cardinality(frames) = 1
        /\ \A j \in frames : r.client[j].calls # msg.calls

C13_Witness ==
  \E g \in Calls :
     /\ callLog[g].kind = "new"
     /\ callLog[g].entry \in forwarded
     /\ \E h \in Calls : callLog[h].kind = "semantic"
     /\ \E msg \in WideUpstreamBatches :
           /\ Len(NewCalls(msg, OnMessageResult(msg))) = 2
           /\ \E i \in 1..2 : msg.calls[i].args = ArgsTitlePriority
           /\ FramesOf(OnMessageResult(msg).client, "message") # {}

-----------------------------------------------------------------------------
(* C14 - semantic duplicates                                               *)

(* the first call of the batch carries an id, is no log_thought call, has  *)
(* no entry under its fingerprint once the sweep has run, and its action   *)
(* key has a recentActions entry that is not older than the window         *)
SemanticCase(msg) ==
  LET fc == msg.calls[1]
      aKey == actionKey(fc.name, fc.args)
      kept == DOMAIN pendingToolCalls \ SweepDeleted(pendingToolCalls, entries)
  IN /\ fc.id # NoId
     /\ fc.name # "log_thought"
     /\ stableArgsHash(fc.name, fc.args) \notin kept
     /\ aKey # Null
     /\ aKey \in DOMAIN recentActions
     /\ recentActions[aKey] <= ACTION_DEDUP_WINDOW_MS

-----------------------------------------------------------------------------
(* C15 - duplicates arriving after the client has answered                 *)

(* the first call of the batch carries an id, is no log_thought call, and  *)
(* its fingerprint has an entry the sweep keeps, which the client has      *)
(* resolved and whose answer has gone upstream                             *)
ResolvedCase(msg) ==
  LET fc == msg.calls[1]
      dedupKey == stableArgsHash(fc.name, fc.args)
      kept == DOMAIN pendingToolCalls \ SweepDeleted(pendingToolCalls, entries)
  IN /\ fc.id # NoId
     /\ fc.name # "log_thought"
     /\ handlers = <<>>
     /\ dedupKey \in kept
     /\ Entry(dedupKey).responded
     /\ Len(Responses(Entry(dedupKey).geminiId)) = 1

(* C15: a call whose fingerprint has an entry the client has resolved and  *)
(* the sweep has not removed is answered at once, under its own upstream   *)
(* id, with the answer the client gave for the canonical call, whatever    *)
(* kind of answer that was, and it is not forwarded to the client          *)
C15_CachedAnswer ==
  \A msg \in UpstreamBatches :
     ResolvedCase(msg) =>
       LET fc == msg.calls[1]
           r == OnMessageResult(msg)
           entry == Entry(stableArgsHash(fc.name, fc.args))
       IN /\ r.sent[fc.id] = Responses(entry.geminiId)
          /\ \A c \in ForwardedCalls(r.client) : r.ents[c.id].geminiId # fc.id

-----------------------------------------------------------------------------
(* C16 - the sweep of responded entries                                    *)

(* the entries the toolResponse handler marks responded in this step *)
JustResponded ==
  {ref \in DOMAIN entries \cap DOMAIN entries' :
     ~entries[ref].responded /\ entries'[ref].responded}

(* C16: a responded entry is removed by the sweep only when more than      *)
(* DEDUP_WINDOW_MS have passed since the client's result was recorded: a   *)
(* sweep that runs right after the result was recorded keeps the entry,    *)
(* however long the call was pending before                                *)
C16_WindowSinceResponse ==
  [][\A ref \in JustResponded :
       \A k \in DOMAIN pendingToolCalls' :
          pendingToolCalls'[k] = ref => k \notin SweepDeleted(pendingToolCalls', entries')]_vars

-----------------------------------------------------------------------------
(* C17 - activity notifications                                            *)

Outcome(r) == [activity |-> r.activity, client |-> r.client]

(* what each callback that can run now leaves: its activity state and the  *)
(* frames it sends                                                         *)
EventOutcomes ==
  (IF geminiSession = "open"
   THEN {Outcome(OnMessageResult(msg)) : msg \in SessionMessages} \cup {Outcome(OnErrorResult)}
   ELSE {})
  \cup (IF geminiSession \in {"open", "closing"} THEN {Outcome(OnCloseResult)} ELSE {})
  \cup (IF geminiSession = "connecting" THEN {Outcome(CatchResult)} ELSE {})

ActivityFrames(client) == SelectSeq(client, LAMBDA f : f.type = "activity")

(* C17: an activity frame is sent only when the derived state differs from *)
(* the state derived before (idle at first), and it carries the new state; *)
(* no two consecutive activity frames the client gets carry the same state *)
C17_ActivityOnChange ==
  /\ \A r \in EventOutcomes :
        LET a == ActivityFrames(r.client)
        IN /\ Len(a) <= 1
           /\ Len(a) = 1 => (r.activity # lastActivityState /\ a[1].state = r.activity)
  /\ Len(activityNotes) = 1 => activityNotes[1] # "idle"
  /\ Len(activityNotes) = 2 => activityNotes[1] # activityNotes[2]

(* the client got two activity frames, and an event that derives the       *)
(* state the connection is in can arrive: it sends no activity frame       *)
C17_Witness ==
  /\ Len(activityNotes) = 2
  /\ clientWs = "OPEN"
  /\ lastActivityState = "speaking"
  /\ \E r \in EventOutcomes :
        r.activity = lastActivityState /\ ActivityFrames(r.client) = <<>> /\ r.client # <<>>

-----------------------------------------------------------------------------
(* C18 - the activity state after an upstream event                        *)

Relayed(r) == FramesOf(r.client, "message") # {}

(* C18: after a tool-call event the activity state is thinking, after an   *)
(* input-transcript event listening, after turn-complete idle, after an    *)
(* audio event that is relayed speaking; an audio event that is suppressed *)
(* does not move the state to speaking                                     *)
C18_ActivityAfterEvent ==
  geminiSession = "open" =>
    \A msg \in SessionMessages :
       LET r == OnMessageResult(msg)
       IN /\ msg.kind = "toolCall" => r.activity = "thinking"
          /\ msg.kind = "inputTranscription" => r.activity = "listening"
          /\ msg.kind = "turnComplete" => r.activity = "idle"
          /\ (msg.kind = "audio" /\ Relayed(r)) => r.activity = "speaking"
          /\ (msg.kind = "audio" /\ ~Relayed(r) /\ r.activity = "speaking")
                => lastActivityState = "speaking"

-----------------------------------------------------------------------------
(* C19 - the upstream session closes or reports an error                   *)

(* callbacks.onclose runs in this step *)
CloseStep == geminiSession # "closed" /\ geminiSession' = "closed"

(* callbacks.onerror runs in this step *)
ErrorStep == upstreamErrors' > upstreamErrors

(* the terminal frame goes to a client that is connected *)
TerminalRelayed ==
  /\ (CloseStep /\ clientWs = "OPEN")
        => clientLog' = Append(clientLog, SessionFrame("closed"))
  /\ (ErrorStep /\ clientWs = "OPEN")
        => clientLog' = Append(clientLog, SessionFrame("error"))

(* C19: when the upstream session closes or reports an error, a client     *)
(* that is still connected gets the terminal frame (closed for a close,    *)
(* error for an error); from then on the client socket is not open, no     *)
(* method of the session is called to send, and live.connect is not called *)
(* a second time                                                           *)
C19_TerminalTeardown ==
  /\ [][TerminalRelayed]_vars
  /\ [](SessionEnded => (clientWs # "OPEN" /\ ~usedAfterEnd /\ connectAttempts = 1))

-----------------------------------------------------------------------------
(* C20 - live.connect fails                                                *)

Count(log, type) == Cardinality({i \in 1..Len(log) : log[i].type = type})

(* the catch block sends the error frame to a client that is connected *)
FailureRelayed ==
  (geminiSession = "connecting" /\ geminiSession' = "failed" /\ clientWs = "OPEN")
    => clientLog' = <<SessionFrame("error")>>

(* C20: when live.connect fails, a client that is still connected gets one *)
(* error frame; from then on the client socket is not open, the client     *)
(* never gets a connected frame or a second error frame, no client message *)
(* handler is installed and live.connect has been called once              *)
C20_ConnectFailure ==
  /\ [][FailureRelayed]_vars
  /\ [](geminiSession = "failed" =>
          /\ clientWs # "OPEN"
          /\ Count(clientLog, "connected") = 0
          /\ Count(clientLog, "error") <= 1
          /\ ~handlersInstalled
          /\ connectAttempts = 1)

(* the connect has failed, the client got the error frame and its socket   *)
(* is closed                                                               *)
C20_Witness ==
  /\ geminiSession = "failed"
  /\ clientLog = <<SessionFrame("error")>>
  /\ clientWs = "CLOSED"

(* the client's socket has closed and clientWs.on('close') has run *)
ClientGone == handlersInstalled /\ clientWs = "CLOSED"

NothingSentAfterwards == ClientGone => upstreamSent' = upstreamSent

(* C21: once the client has disconnected from an open session, close() has *)
(* been called on the upstream session, and from then on the upstream gets *)
(* no tool response, neither a result nor a timeout error: the calls still *)
(* pending are never answered.                                             *)
C21_DisconnectDiscards ==
  /\ [][NothingSentAfterwards]_vars
  /\ [](ClientGone => geminiSession \in {"closing", "closed"})

(* the client has gone while a call older than MAX_PENDING_TOOL_MS is      *)
(* still pending                                                           *)
C21_Witness ==
  /\ ClientGone
  /\ geminiSession = "closing"
  /\ \E id \in DOMAIN entries :
        ~entries[id].responded /\ entries[id].elapsed >= MAX_PENDING_TOOL_MS
  /\ \E g \in DOMAIN callLog : upstreamSent[g] = <<>>
(* C22: the audio frames of the client are handed to the upstream session  *)
(* one for one, with the payload they carried and in the order they came,  *)
(* by the end of the handler of each frame: also while tool calls are      *)
(* pending and while a toolResponse handler is suspended at an awaited     *)
(* send.                                                                   *)
C22_AudioInOrder == audioOut = audioIn

(* two different audio frames were forwarded while a call was pending and  *)
(* a toolResponse handler was suspended                                    *)
C22_Witness ==
  /\ Len(audioOut) = MaxAudio
  /\ audioOut[1] # audioOut[2]
  /\ handlers # <<>>
  /\ \E id \in DOMAIN entries : ~entries[id].responded
-----------------------------------------------------------------------------
(* C23 - the audio cooldown                                                *)

CooldownSet(r) == r.audio.audioCooldownLeft = AUDIO_COOLDOWN_MS

-----------------------------------------------------------------------------
(* LoopGuard                                                               *)

OpenSessions == {i \in DOMAIN lgSessions : lgSessions[i] = "open"}

(* callbacks.onmessage creates a session in this step *)
ResetStep == Len(lgSessions') > Len(lgSessions)

ResetReplaces ==
  ResetStep =>
    /\ lgSessions[lgGeminiSession] = "open"
    /\ lgSessions'[lgGeminiSession] = "closing"
    /\ lgSessions'[Len(lgSessions')] = "connecting"
    /\ toolCallCounts' = <<>>
    /\ lgClientLog' = lgClientLog \o GuardDelivered(<<"loop_detected">>)

(* C24: with MAX_TOOL_CALLS = 3, a tool-call message whose text has come   *)
(* fewer than three times since the counters were last cleared is          *)
(* forwarded and counted; the fourth is not forwarded: the handler clears  *)
(* all counters, closes the current session, creates a new one and sends   *)
(* the client loop_detected.                                               *)
C24_FourthCallResets ==
  /\ [](OpenSessions # {} =>
          \A m \in GuardCallMessages :
             LET n == CountOf(toolCallCounts, CallKey(m))
                 r == GuardOnMessage(m, GuardState)
             IN IF n < MAX_TOOL_CALLS
                THEN /\ r.client = <<"message">>
                     /\ ~r.reset
                     /\ r.counts = Counted(toolCallCounts, CallKey(m))
                ELSE /\ r.client = <<"loop_detected">>
                     /\ r.reset
                     /\ r.counts = <<>>)
  /\ [][ResetReplaces]_vars

(* the fourth identical message has come: the first session is closing,    *)
(* the second is being created                                             *)
C24_Witness ==
  /\ lgSessions = <<"closing", "connecting">>
  /\ toolCallCounts = <<>>
  /\ isReconnecting
  /\ lgClientLog = <<"connected", "loop_detected">>

(* C25: the onclose of a session that a reset has closed neither sends the *)
(* client closed nor closes its socket, whenever it runs, and the onopen   *)
(* of a replacement session sends reconnected.                             *)
C25_ResetKeepsClient ==
  /\ lgClosedBy \notin lgReset
  /\ \A i \in DOMAIN lgAnnounced : i > 1 => lgAnnounced[i] \in {"", "reconnected"}

(* C26: once a replacement session has announced itself with reconnected   *)
(* and while it is open and the client has not gone, the client socket is  *)
(* open, geminiSession is the replacement, so that audio and tool          *)
(* responses go to it, and its tool-call messages are forwarded.           *)
C26_UsableAfterReconnect ==
  LET n == Len(lgSessions)
  IN (n > 1 /\ lgAnnounced[n] = "reconnected" /\ lgSessions[n] = "open"
        /\ lgClientWs # "CLOSED") =>
       /\ lgGeminiSession = n
       /\ lgClientWs = "OPEN"
       /\ \A m \in GuardCallMessages :
             CountOf(toolCallCounts, CallKey(m)) < MAX_TOOL_CALLS
                => GuardOnMessage(m, GuardState).client = <<"message">>

(* C27: a toolResponse frame with a response whose name and result have    *)
(* come more than MAX_TOOL_CALLS times is not sent on, and the handler     *)
(* resets the session as for tool calls: new session, loop_detected, all   *)
(* counters cleared.                                                       *)
C27_ResponseLoopResets ==
  (lgHandlersInstalled /\ lgClientWs = "OPEN") =>
     \A rs \in GuardResponseMessages :
        LET r == GuardOnToolResponse(rs, GuardState)
        IN (\E j \in 1..Len(rs) :
               CountOf(toolCallCounts, ResponseKey(rs[j])) >= MAX_TOOL_CALLS)
             => /\ ~r.sent
                /\ r.reset
                /\ r.counts = <<>>
                /\ r.client = <<"loop_detected">>

(* C29: at most one session of the connection is open and at most one is   *)
(* being created, and none is open once the client socket has closed.      *)
C29_OneOpenSession ==
  /\ Cardinality(OpenSessions) <= 1
  /\ Cardinality({i \in DOMAIN lgSessions : lgSessions[i] = "connecting"}) <= 1
  /\ lgClientWs = "CLOSED" => OpenSessions = {}
-----------------------------------------------------------------------------
(* C30 - the client leaves while live.connect is in flight                 *)

SilentOnClosedSocket == clientWs = "CLOSED" => clientLog' = clientLog

(* C30: when the client's socket has closed, also while the session was    *)
(* still connecting, the session does not stay open once it has opened,    *)
(* and the closed socket is sent nothing.                                  *)
C30_DisconnectWhileConnecting ==
  /\ [][SilentOnClosedSocket]_vars
  /\ [](clientWs = "CLOSED" => geminiSession # "open")
-----------------------------------------------------------------------------
(* C28 - the client answers each forwarded batch                           *)

(* the toolResponse frames sent for the batch with the tag t *)
FramesFor(t) == {j \in DOMAIN wsSent : wsSent[j].tag = t}

RunEnded(t) == \E j \in DOMAIN runsEnded : runsEnded[j].tag = t

(* the response x answers the call fc whose execution ended with outcome *)
Answers(x, fc, outcome) ==
  /\ x.id = fc.id
  /\ x.name = fc.name
  /\ outcome.kind = "returned" => x.response = Result(outcome.result)
  /\ outcome.kind \in {"threw", "timeout"} => x.response.t = "error"

AnsweredOnce(f) ==
  IF f.open
  THEN /\ Cardinality(FramesFor(f.tag)) = 1
       /\ \A j \in FramesFor(f.tag) :
             /\ Len(wsSent[j].responses) = Len(f.batch)
             /\ \A i \in 1..Len(f.batch) :
                   Answers(wsSent[j].responses[i], f.batch[i], f.outcomes[i])
  ELSE FramesFor(f.tag) = {}

(* C28: each tool of a forwarded batch runs against a timer of             *)
(* TOOL_TIMEOUT_MS, which is shorter than MAX_PENDING_TOOL_MS; every batch *)
(* received comes to an end, and when the socket is open at that moment    *)
(* the client has sent exactly one toolResponse frame for it, with one     *)
(* response per call, in batch order and under the id received: the result *)
(* of the tool when it returned, a failure when it threw or timed out.     *)
(* No frame is sent for a batch that has not ended.                        *)
C28_ClientAnswersBatch ==
  /\ [](/\ TOOL_TIMEOUT_MS < MAX_PENDING_TOOL_MS
        /\ \A j \in DOMAIN runsEnded : AnsweredOnce(runsEnded[j])
        /\ \A j \in DOMAIN wsSent : RunEnded(wsSent[j].tag))
  /\ \A t \in 1..MaxBatches : (batchesReceived >= t) ~> RunEnded(t)

(* a batch of two calls was answered: the first tool returned, the timer   *)
(* of the second fired                                                     *)
C28_Witness ==
  \E j \in DOMAIN runsEnded :
     /\ runsEnded[j].open
     /\ Len(runsEnded[j].batch) = 2
     /\ runsEnded[j].outcomes[1].kind = "returned"
     /\ runsEnded[j].outcomes[2].kind = "timeout"
     /\ FramesFor(runsEnded[j].tag) # {}

-----------------------------------------------------------------------------
(* C31 - a duplicate arriving while the toolResponse handler is suspended *)

(* the state the suspended handler h finds when it goes on after the      *)
(* upstream message msg was handled, and leaves when it is done           *)
DoneAfter(h, msg) ==
  LET after == OnMessageResult(msg)
  IN RunToEnd(ResumeResult(h, [pend |-> after.pend, ents |-> after.ents,
                               sent |-> after.sent, suspended |-> <<>>]))

(* the calls of msg that the batch loop found to be exact duplicates of   *)
(* the entry the handler h holds                                          *)
DuplicatesOf(h, msg) ==
  LET after == OnMessageResult(msg)
  IN {g \in DOMAIN after.log \ Calls :
        /\ after.log[g].kind \in {"dupQueued", "dupLate", "dupCached"}
        /\ after.log[g].entry = h.entry}

(* C31: an exact duplicate that arrives while the toolResponse handler of  *)
(* its entry is suspended at an awaited send, after the result was stored  *)
(* and before the duplicate lists are cleared, has one response under its  *)
(* upstream id when the handler is done, and not two.                      *)
C31_DuplicateWhileSuspended ==
  \A i \in 1..Len(handlers) : \A msg \in ToolCallMessages(nextGeminiId) :
     (WellFormed(msg) /\ nextGeminiId + msg.fresh <= MaxCalls) =>
        \A g \in DuplicatesOf(handlers[i], msg) :
           Len(DoneAfter(handlers[i], msg).sent[g]) = 1

-----------------------------------------------------------------------------
(* C32 - a call without an id affects only itself                          *)

(* the batch msg with its calls without an id left out *)
Absent(msg) ==
  [msg EXCEPT !.calls = SelectSeq(@, LAMBDA fc : fc.name = "log_thought" \/ fc.id # NoId)]

(* the two runs of the batch loop registered, answered and forwarded the  *)
(* same calls                                                             *)
SameHandling(r, clean) ==
  /\ r.pend = clean.pend
  /\ r.ents = clean.ents
  /\ r.recent = clean.recent
  /\ r.counter = clean.counter
  /\ r.sent = clean.sent
  /\ r.fwd = clean.fwd
  /\ ForwardedCalls(r.client) = ForwardedCalls(clean.client)

(* C32: a call without an upstream id affects only itself: the other calls *)
(* of its batch are registered, answered and forwarded to the client as if *)
(* it were absent, and so every pending entry that is not responded        *)
(* belongs to a call that has been sent to the client.                     *)
C32_MissingIdIsolated ==
  /\ \A msg \in UpstreamBatches :
        (MissingIds(msg) # {} /\ nextGeminiId + msg.fresh <= MaxCalls)
           => SameHandling(OnMessageResult(msg), OnMessageResult(Absent(msg)))
  /\ \A k \in DOMAIN pendingToolCalls :
        ~Entry(k).responded => Entry(k).originalId \in forwarded

-----------------------------------------------------------------------------
(* C33 - a failing send for a queued duplicate                             *)

(* the handler of the frame rs whose first send for a queued duplicate     *)
(* failed has sent a response for every other duplicate of the entry and   *)
(* for its canonical call                                                  *)
OthersAnswered(rs) ==
  LET st == RunResponses(rs, <<>>, HandlerState)
      done == CatchSendError(HandlerState, st)
      e == entries[st.suspended[1].entry]
  IN /\ \A j \in 2..Len(e.duplicateGeminiIds) :
           Len(done.sent[e.duplicateGeminiIds[j]])
              > Len(upstreamSent[e.duplicateGeminiIds[j]])
     /\ Len(done.sent[e.geminiId]) > Len(upstreamSent[e.geminiId])

(* C33: when the send of the response for a queued duplicate fails, the    *)
(* remaining duplicates and the canonical upstream id still get their      *)
(* responses, and no entry is left marked responded, with no handler at   *)
(* work any more, while its canonical upstream id has received no          *)
(* response.                                                               *)
C33_SendFailureContained ==
  /\ \A rs \in ToolResponseMessages :
        RunResponses(rs, <<>>, HandlerState).suspended # <<>> => OthersAnswered(rs)
  /\ \A k \in DOMAIN pendingToolCalls :
        (Entry(k).responded /\ handlers = <<>>)
           => Responses(Entry(k).geminiId) # <<>>

-----------------------------------------------------------------------------
(* C34 - the reconnect of LoopGuard fails                                  *)

(* the sessions that a reset created *)
Reconnects == {i \in DOMAIN lgSessions : i > 1}

(* live.connect of a session that a reset created rejects *)
ReconnectFails ==
  \E i \in Reconnects : lgSessions[i] = "connecting" /\ lgSessions'[i] = "failed"

(* the client is told of the failure and its socket is closed, and no      *)
(* other session is created                                                *)
FailureSurfaced ==
  /\ lgClientWs = "OPEN" =>
        (lgClientLog' = Append(lgClientLog, "error") /\ lgClientWs' # "OPEN")
  /\ Len(lgSessions') = Len(lgSessions)

(* C34: when reopening the upstream session after a detected loop fails,   *)
(* the client is sent an error frame and its connection is closed, with no *)
(* retry; the client connection is never left open after such a failure.   *)
C34_ReconnectFailureCloses ==
  /\ [][ReconnectFails => FailureSurfaced]_vars
  /\ [](\A i \in Reconnects : lgSessions[i] = "failed" => lgClientWs # "OPEN")

-----------------------------------------------------------------------------
(* C35 - the synthetic success of a semantic duplicate                     *)

(* the action key of the call that the batch loop logged under the id g *)
ActionKeyOf(g) ==
  LET c == CHOOSE x \in CallPool :
              x.name = callLog[g].name /\ stableArgsHash(x.name, x.args) = callLog[g].key
  IN actionKey(c.name, c.args)

(* the forwarded calls that came before g with the action key of g *)
EarlierForwarded(g) ==
  {f \in Calls : f < g /\ callLog[f].kind = "new" /\ ActionKeyOf(f) = ActionKeyOf(g)}

(* the client has answered the call with a result *)
CompletedOk(f) ==
  \E i \in 1..Len(Responses(f)) :
     Responses(f)[i].t = "result" /\ Responses(f)[i] # SemanticResponse

(* C35: a call is answered with the synthetic success 'Already processed   *)
(* similar request' only when the last call forwarded before it with the   *)
(* same action key has completed successfully: not while that call is      *)
(* pending, and not after the client reported it failed or it timed out.   *)
C35_SuccessOnlyAfterSuccess ==
  \A g \in Calls :
     callLog[g].kind = "semantic" =>
        \E f \in EarlierForwarded(g) :
           /\ \A h \in EarlierForwarded(g) : h <= f
           /\ CompletedOk(f)

-----------------------------------------------------------------------------
(* C36 - the action-dedup entry and the time its key was last seen         *)

(* the action key of the call of the batch msg that carries the id g *)
ActionKeyIn(msg, g) ==
  LET fc == msg.calls[CHOOSE i \in 1..Len(msg.calls) : msg.calls[i].id = g]
  IN actionKey(fc.name, fc.args)

(* the calls of msg that the batch loop answered as semantic duplicates or *)
(* forwarded as new                                                        *)
SeenByAction(msg, r) ==
  {g \in DOMAIN r.log \ Calls : r.log[g].kind \in {"semantic", "new"}}

(* C36: an action-dedup entry holds the time its action key was last seen: *)
(* after a batch, the entry of every call forwarded as new or answered as  *)
(* a semantic duplicate holds the time of that batch; the entry expires    *)
(* when it is older than ACTION_DEDUP_WINDOW_MS, and a call is forwarded   *)
(* as new only when its key has no entry or an expired one.                *)
C36_LastSeenWindow ==
  \A msg \in UpstreamBatches :
     (nextGeminiId + msg.fresh <= MaxCalls) =>
        LET r == OnMessageResult(msg)
        IN \A g \in SeenByAction(msg, r) :
              LET a == ActionKeyIn(msg, g)
              IN /\ a # Null => (a \in DOMAIN r.recent /\ r.recent[a] = 0)
                 /\ (r.log[g].kind = "new" /\ a \in DOMAIN recentActions)
                       => recentActions[a] > ACTION_DEDUP_WINDOW_MS

-----------------------------------------------------------------------------
(* C37 - audio suppression is per turn and sticky                          *)

(* the message is relayed to the client *)
RelayedOn(msg) == FramesOf(OnMessageResult(msg).client, "message") # {}

(* the events that end a turn's suppression *)
EndsSuppression(msg) == msg.kind \in {"turnComplete", "inputTranscription"}

(* what a message does while a chunk of the turn has been dropped, and     *)
(* what a dropped chunk leaves                                             *)
StickySuppression ==
  \A msg \in SessionMessages :
     LET r == OnMessageResult(msg)
     IN /\ (skipCurrentAudio /\ msg.kind = "audio")
              => (~RelayedOn(msg) /\ r.audio.skipCurrentAudio)
        /\ (skipCurrentAudio /\ msg.kind = "turnComplete")
              => (~RelayedOn(msg) /\ ~r.audio.skipCurrentAudio)
        /\ (skipCurrentAudio /\ msg.kind = "inputTranscription")
              => (~r.audio.skipCurrentAudio /\ r.audio.audioCooldownLeft = 0)
        /\ (skipCurrentAudio /\ ~EndsSuppression(msg)) => r.audio.skipCurrentAudio
        /\ (msg.kind = "audio" /\ ~RelayedOn(msg)) => r.audio.skipCurrentAudio

(* suppression ends *)
SuppressionEnds == skipCurrentAudio /\ ~skipCurrentAudio'

(* the step is a turn-complete or an input-transcription event *)
AtTurnEnd ==
  \E msg \in SessionMessages : EndsSuppression(msg) /\ AudioState' = OnMessageResult(msg).audio

(* C37: once an audio chunk of a model turn has been dropped, every later  *)
(* audio chunk of the turn is dropped too, also after the cooldown         *)
(* deadline has passed, and the turn-complete of the turn is not relayed;  *)
(* suppression ends only at that turn-complete or at an input              *)
(* transcription, which also clears the cooldown deadline.                 *)
C37_StickySuppression ==
  /\ [][SuppressionEnds => AtTurnEnd]_vars
  /\ [](StickySuppression)

(* a chunk was dropped, the cooldown deadline has passed, and the next     *)
(* audio chunk and the turn-complete are still not relayed                 *)
C37_Witness ==
  /\ skipCurrentAudio
  /\ audioCooldownLeft = 0
  /\ geminiSession = "open"
  /\ ~RelayedOn(AudioMessage)
  /\ ~RelayedOn(TurnCompleteMessage)
====
